---- MODULE Spec2Model ----
(***************************************************************************)
(* Storage-node validation core of safe_network (sn_node).                 *)
(*                                                                         *)
(* The node's event loop spawns one detached task per network event.  A    *)
(* task that validates a record first reads the local record store (the    *)
(* presence check and the read of the local copy), validates the payload   *)
(* (signature, parents and witnesses of the peers for a spend; the payment *)
(* of a chunk; the merge of a register) and then writes the store with     *)
(* put_local_record.  The reads and the write are separate calls to the    *)
(* swarm driver, so the steps of other tasks may run in between.  The      *)
(* queries to the peers do not touch the state of this node: they are      *)
(* taken in the same step as the reads of the store.                       *)
(***************************************************************************)
EXTENDS Integers, Sequences, FiniteSets, Bags, TLC

\* ------------------------------------------------------------------ bounds
MaxTasks == 2
MaxSpends == 3
MaxPeers == 4
MaxToken == 4
MaxDeliveries == 3
MaxPending == 2
MaxEvents == 2
MaxChunks == 6

\* --------------------------------------------------------------- constants
MAX_SIGNED_SPENDS_LENGTH == 2

\* ------------------------------------------------------------- data model
\* response channels (MsgResponder): one per request being handled
Chans == 1..MaxTasks

\* XorNames used as record keys
Keys == {1, 2}
DbcIds == {1, 2}

\* DbcAddress::from_dbc_id(dbc_id).name(): a one-way map from DbcId to XorName
DbcAddrName(d) == 3 - d

\* Hash::hash over a byte string, here a sequence of numbers
RECURSIVE HashFrom(_, _)
HashFrom(h, bytes) ==
    IF bytes = <<>> THEN h
    ELSE HashFrom(h * 7 + Head(bytes) + 1, Tail(bytes))

Hash(bytes) == HashFrom(1, bytes)

\* the Merkle tree of the payment for the two chunk names 1 and 2
LeafOf(name) == Hash(<<name>>)
RootHash == Hash(<<LeafOf(1), LeafOf(2)>>)

\* DbcTransaction: inputs and fee output (id, token, root_hash)
Txs == {1, 2, 3, 4}

TxInputs(t) == <<1>>

TxFee(t) ==
    CASE t = 1 -> [id |-> Hash(<<RootHash, 1>>), token |-> 2, root_hash |-> RootHash]
      [] t = 2 -> [id |-> Hash(<<RootHash, 1>>), token |-> 1, root_hash |-> RootHash]
      [] t = 3 -> [id |-> 0, token |-> 0, root_hash |-> RootHash]
      [] OTHER -> [id |-> 0, token |-> 2, root_hash |-> RootHash]

Tx(t) == [inputs |-> TxInputs(t), fee |-> TxFee(t)]

\* SignedSpend: dbc_id, spent_tx, the signature bytes and whether they verify
Spend(d, t, sg, v) == [id |-> d, tx |-> t, sig |-> sg, ok |-> v]

SpendA == Spend(1, 1, 2, TRUE)
SpendB == Spend(1, 2, 1, TRUE)
SpendC == Spend(1, 3, 3, TRUE)
SpendD == Spend(2, 1, 4, TRUE)

\* spends that fail a check: E has a bad signature, F a fee output with a
\* wrong id, G both; H is a spend of dbc 2 with another transaction than D
SpendE == Spend(1, 1, 5, FALSE)
SpendF == Spend(1, 4, 6, TRUE)
SpendG == Spend(1, 4, 7, FALSE)
SpendH == Spend(2, 2, 8, TRUE)

AllSpends == {SpendA, SpendB, SpendC, SpendD}

\* the lists of signed spends a peer may send: every list of at most
\* MAX_SIGNED_SPENDS_LENGTH spends, and longer lists of some of the spends
ListsOf(short, long) ==
    UNION { [1..n -> short] : n \in 0..2 }
    \cup UNION { [1..n -> long] : n \in 3..MaxSpends }

\* PaymentProof: spent_ids, audit_trail, path; payment is an Option
NoPayment == [some |-> FALSE, spent_ids |-> <<>>, audit_trail |-> <<>>, path |-> <<>>]

Proof(ids, trail, path) ==
    [some |-> TRUE, spent_ids |-> ids, audit_trail |-> trail, path |-> path]

\* the proofs of the chunk names 1 and 2, and a proof without inputs
ProofOne == Proof(<<1>>, <<LeafOf(2)>>, <<0>>)
ProofTwo == Proof(<<1>>, <<LeafOf(1)>>, <<1>>)
ProofNoInputs == Proof(<<>>, <<LeafOf(2)>>, <<0>>)

Payments == {NoPayment, ProofOne, ProofTwo, ProofNoInputs}

\* proofs of the chunk name 2 that name two spent ids
ProofTwoIds == Proof(<<1, 2>>, <<LeafOf(1)>>, <<1>>)
ProofTwoIdsBack == Proof(<<2, 1>>, <<LeafOf(1)>>, <<1>>)

ChunkWithPayment(name, payment) == [name |-> name, payment |-> payment]

\* SignedRegister: address name, whether the signature verifies, CRDT content
Entries == {1, 2}
Register(name, ok, ents) == [name |-> name, ok |-> ok, ents |-> ents]

\* records of the local store
NoRecord == [kind |-> "None"]
ChunkRecord(c) == [kind |-> "Chunk", chunk |-> c]
SpendRecord(ss) == [kind |-> "DbcSpend", spends |-> ss]
RegisterRecord(r) == [kind |-> "Register", reg |-> r]

\* results
Ok(v) == [ok |-> TRUE, v |-> v, w |-> <<>>]
Err(v) == [ok |-> FALSE, v |-> v, w |-> <<>>]
DoubleSpendAttempt(w1, w2) == [ok |-> FALSE, v |-> "DoubleSpendAttempt", w |-> <<w1, w2>>]

Range(s) == { s[i] : i \in DOMAIN s }

Min(a, b) == IF a < b THEN a ELSE b

\* ------------------------------------------------- spend aggregator (C2)
\* the spends of a set in the order of their signature bytes
RECURSIVE SortBySig(_)
SortBySig(S) ==
    IF S = {} THEN <<>>
    ELSE LET m == CHOOSE x \in S : \A y \in S : x.sig <= y.sig
         IN  <<m>> \o SortBySig(S \ {m})

\* aggregate(spends, dbc_id): the spends of dbc_id, deduplicated; two witnesses
\* of distinct transactions when there are any, never more than two spends
aggregate_spends(spends, dbc_id) ==
    LET F == { s \in Range(spends) : s.id = dbc_id }
        sorted == SortBySig(F)
        conflict == { i \in DOMAIN sorted : sorted[i].tx # sorted[1].tx }
    IN  IF conflict # {}
        THEN <<sorted[1], sorted[CHOOSE i \in conflict : \A j \in conflict : i <= j]>>
        ELSE SubSeq(sorted, 1, Min(Len(sorted), MAX_SIGNED_SPENDS_LENGTH))

\* get_aggregated_spends_from_peers(dbc_id): the Ok results the peers can
\* produce, whatever witnesses they hold (the Err result is a case of the caller)
\* net: the signed spends that peers may hold
PeerSpends(net, dbc_id) ==
    { aggregate_spends(SortBySig(W), dbc_id) : W \in SUBSET net }

\* ------------------------------------------- payment-proof verifier (C3)
IsFree(fee) == fee.token = 0

\* (variant) the id of a free fee output checked as well
verify_fee_output_id_strict(tx) ==
    LET fee == tx.fee
    IN  IF fee.id # Hash(<<fee.root_hash>> \o tx.inputs)
        THEN [ok |-> FALSE, v |-> "PaymentProofInvalidFeeOutput", w |-> <<fee.id>>]
        ELSE Ok("valid")

verify_fee_output_id(tx) ==
    LET fee == tx.fee
    IN  IF ~IsFree(fee) /\ fee.id # Hash(<<fee.root_hash>> \o tx.inputs)
        THEN [ok |-> FALSE, v |-> "PaymentProofInvalidFeeOutput", w |-> <<fee.id>>]
        ELSE Ok("valid")

\* fold of the audit trail from the leaf of addr_name up to the root
RECURSIVE FoldTrail(_, _, _)
FoldTrail(h, audit_trail, path) ==
    IF audit_trail = <<>> THEN h
    ELSE FoldTrail(IF Head(path) = 0 THEN Hash(<<h, Head(audit_trail)>>)
                                     ELSE Hash(<<Head(audit_trail), h>>),
                   Tail(audit_trail), Tail(path))

RECURSIVE LeafIndex(_)
LeafIndex(path) ==
    IF path = <<>> THEN 0 ELSE Head(path) + 2 * LeafIndex(Tail(path))

\* validate_payment_proof: the leaf index, or -1 for an invalid proof
validate_payment_proof(addr_name, root_hash, audit_trail, path) ==
    IF audit_trail = <<>> \/ Len(audit_trail) # Len(path) THEN -1
    ELSE IF FoldTrail(LeafOf(addr_name), audit_trail, path) # root_hash THEN -1
    ELSE LeafIndex(path)

\* (variant) a payment of as many nanos as the leaf index accepted
verify_fee_output_and_proof_lax(addr_name, tx, audit_trail, path) ==
    LET idcheck == verify_fee_output_id(tx)
        leaf_index == validate_payment_proof(addr_name, tx.fee.root_hash,
                                             audit_trail, path)
        paid == tx.fee.token
    IN  IF ~idcheck.ok THEN idcheck
        ELSE IF leaf_index < 0
        THEN [ok |-> FALSE, v |-> "InvalidPaymentProof", w |-> <<addr_name>>]
        ELSE IF paid < leaf_index
        THEN [ok |-> FALSE, v |-> "PaymentProofInsufficientAmount",
              w |-> <<paid, leaf_index + 1>>]
        ELSE Ok("valid")

\* (variant) an invalid proof taken as the proof of the first leaf
verify_fee_output_and_proof_unproved(addr_name, tx, audit_trail, path) ==
    LET idcheck == verify_fee_output_id(tx)
        proved == validate_payment_proof(addr_name, tx.fee.root_hash,
                                         audit_trail, path)
        leaf_index == IF proved < 0 THEN 0 ELSE proved
        paid == tx.fee.token
    IN  IF ~idcheck.ok THEN idcheck
        ELSE IF paid <= leaf_index
        THEN [ok |-> FALSE, v |-> "PaymentProofInsufficientAmount",
              w |-> <<paid, leaf_index + 1>>]
        ELSE Ok("valid")

\* (variant) the proof checked before the id of the fee output
verify_fee_output_and_proof_proof_first(addr_name, tx, audit_trail, path) ==
    LET idcheck == verify_fee_output_id(tx)
        leaf_index == validate_payment_proof(addr_name, tx.fee.root_hash,
                                             audit_trail, path)
        paid == tx.fee.token
    IN  IF leaf_index < 0
        THEN [ok |-> FALSE, v |-> "InvalidPaymentProof", w |-> <<addr_name>>]
        ELSE IF ~idcheck.ok THEN idcheck
        ELSE IF paid <= leaf_index
        THEN [ok |-> FALSE, v |-> "PaymentProofInsufficientAmount",
              w |-> <<paid, leaf_index + 1>>]
        ELSE Ok("valid")

verify_fee_output_and_proof(addr_name, tx, audit_trail, path) ==
    LET idcheck == verify_fee_output_id(tx)
        leaf_index == validate_payment_proof(addr_name, tx.fee.root_hash,
                                             audit_trail, path)
        paid == tx.fee.token
    IN  IF ~idcheck.ok THEN idcheck
        ELSE IF leaf_index < 0
        THEN [ok |-> FALSE, v |-> "InvalidPaymentProof", w |-> <<addr_name>>]
        ELSE IF paid <= leaf_index
        THEN [ok |-> FALSE, v |-> "PaymentProofInsufficientAmount",
              w |-> <<paid, leaf_index + 1>>]
        ELSE Ok("valid")

\* ------------------------------------------------------------ validators
\* A validator yields the set of outcomes that the answers of the store and
\* of the peers allow: the call is finished with a result, or a record is
\* handed to put_local_record.  trace lists the checks made, in order, and
\* answers what the peers returned for the spent ids of a payment proof.
Fin(res, trace) ==
    [fin |-> TRUE, res |-> res, key |-> 0, rec |-> NoRecord, trace |-> trace,
     answers |-> <<>>]

ToPut(key, rec, trace) ==
    [fin |-> FALSE, res |-> Ok("pending"), key |-> key, rec |-> rec, trace |-> trace,
     answers |-> <<>>]

\* what get_aggregated_spends_from_peers returned for a spent id
Answer(dbc_id, ok, signed_spends) ==
    [id |-> dbc_id, ok |-> ok, spends |-> signed_spends]

Reason(v, reason) == [ok |-> FALSE, v |-> v, w |-> <<reason>>]

\* the loop over spent_ids of chunk_payment_validation, from index i on, with
\* payment_tx the transaction found so far (0: none)
\* (variant) the transactions of the witnesses never compared
SpentTxDiffersNever(payment_tx, spent_tx) == FALSE

\* Some(tx) if spent_tx != tx
SpentTxDiffers(payment_tx, spent_tx) == payment_tx # 0 /\ spent_tx # payment_tx

\* (variant) the two witnesses reported in the reverse order
PaymentDoubleSpendReversed(signed_spends) ==
    DoubleSpendAttempt(signed_spends[2], signed_spends[1])

\* two witnesses for a spent id: the first two are reported
PaymentDoubleSpend(signed_spends) ==
    DoubleSpendAttempt(signed_spends[1], signed_spends[2])

RECURSIVE PaymentLoop(_, _, _, _, _, _)
PaymentLoop(cwp, net, i, payment_tx, trace, answers) ==
    LET ids == cwp.payment.spent_ids
    IN  IF i > Len(ids)
        THEN IF payment_tx # 0
             THEN { [res |-> verify_fee_output_and_proof(cwp.name, Tx(payment_tx),
                                 cwp.payment.audit_trail, cwp.payment.path),
                     trace |-> Append(trace, "proof"), answers |-> answers] }
             ELSE { [res |-> Reason("PaymentProofWithoutInputs", cwp.name),
                     trace |-> trace, answers |-> answers] }
        ELSE LET tr == Append(trace, "peers")
             IN  { [res |-> Reason("SpendNotFound", ids[i]), trace |-> tr,
                    answers |-> Append(answers, Answer(ids[i], FALSE, <<>>))] }
                 \cup UNION {
                    LET as == Append(answers, Answer(ids[i], TRUE, ss))
                    IN  CASE Len(ss) = 0 ->
                               { [res |-> Reason("SpendNotFound", ids[i]), trace |-> tr,
                                  answers |-> as] }
                          [] Len(ss) = 1 ->
                               IF SpentTxDiffers(payment_tx, ss[1].tx)
                               THEN { [res |-> Reason("PaymentProofTxMismatch", cwp.name),
                                       trace |-> tr, answers |-> as] }
                               ELSE PaymentLoop(cwp, net, i + 1,
                                                IF payment_tx # 0 THEN payment_tx
                                                ELSE ss[1].tx, tr, as)
                          [] OTHER ->
                               { [res |-> PaymentDoubleSpend(ss), trace |-> tr,
                                  answers |-> as] }
                    : ss \in PeerSpends(net, ids[i]) }

\* (variant) a chunk without a payment proof refused
chunk_payment_validation_required(cwp, net) ==
    IF cwp.payment.some THEN PaymentLoop(cwp, net, 1, 0, <<>>, <<>>)
    ELSE { [res |-> Reason("MissingPaymentProof", cwp.name), trace |-> <<>>,
            answers |-> <<>>] }

chunk_payment_validation(cwp, net) ==
    IF cwp.payment.some THEN PaymentLoop(cwp, net, 1, 0, <<>>, <<>>)
    ELSE { [res |-> Ok("valid"), trace |-> <<>>, answers |-> <<>>] }

\* (variant) the payment validated before the presence of the key is looked at
validate_and_store_chunk_late(cwp, st, net) ==
    LET key == cwp.name
    IN  { Fin(Reason("ChunkNotStored", cwp.name), <<"present failed">>) }
        \cup
        { [ IF ~r.res.ok THEN Fin(r.res, r.trace \o <<"present">>)
            ELSE IF st[key] # NoRecord
            THEN Fin(Ok("DataAlreadyPresent"), r.trace \o <<"present">>)
            ELSE ToPut(key, ChunkRecord(cwp), r.trace \o <<"present">>)
            EXCEPT !.answers = r.answers ]
          : r \in chunk_payment_validation(cwp, net) }

validate_and_store_chunk(cwp, st, net) ==
    LET key == cwp.name
    IN  { Fin(Reason("ChunkNotStored", cwp.name), <<"present failed">>) }
        \cup
        IF st[key] # NoRecord
        THEN { Fin(Ok("DataAlreadyPresent"), <<"present">>) }
        ELSE { [ IF r.res.ok
                 THEN ToPut(key, ChunkRecord(cwp), <<"present">> \o r.trace)
                 ELSE Fin(r.res, <<"present">> \o r.trace)
                 EXCEPT !.answers = r.answers ]
               : r \in chunk_payment_validation(cwp, net) }

\* SignedRegister::verified_merge: the union of the two replicas
verified_merge(local, register) ==
    [name |-> local.name, ok |-> local.ok, ents |-> local.ents \cup register.ents]

None == [tag |-> "None", val |-> <<>>, err |-> Ok("none"), trace |-> <<>>]
Some(val, trace) == [tag |-> "Some", val |-> val, err |-> Ok("none"), trace |-> trace]
Fail(err, trace) == [tag |-> "Err", val |-> <<>>, err |-> err, trace |-> trace]

\* (variant) a register that is present locally never merged
register_validation_first_wins(register, present_locally, local) ==
    IF ~register.ok
    THEN { Fail(Reason("InvalidRegister", register.name), <<"verify">>) }
    ELSE IF ~present_locally
    THEN { Some(register, <<"verify">>) }
    ELSE { Fail(Reason("RegisterNotStored", register.name),
                <<"verify", "local failed">>) }
         \cup
         IF local.kind # "Register"
         THEN { Fail(Reason("RecordKindMismatch", "Register"), <<"verify", "local">>) }
         ELSE { [None EXCEPT !.trace = <<"verify", "local">>] }

\* (variant) the incoming register kept in place of the merged one
register_validation_incoming(register, present_locally, local) ==
    IF ~register.ok
    THEN { Fail(Reason("InvalidRegister", register.name), <<"verify">>) }
    ELSE IF ~present_locally
    THEN { Some(register, <<"verify">>) }
    ELSE { Fail(Reason("RegisterNotStored", register.name),
                <<"verify", "local failed">>) }
         \cup
         IF local.kind # "Register"
         THEN { Fail(Reason("RecordKindMismatch", "Register"), <<"verify", "local">>) }
         ELSE LET merged == verified_merge(local.reg, register)
              IN  IF merged = local.reg
                  THEN { [None EXCEPT !.trace = <<"verify", "local">>] }
                  ELSE { Some(register, <<"verify", "local">>) }

register_validation(register, present_locally, local) ==
    IF ~register.ok
    THEN { Fail(Reason("InvalidRegister", register.name), <<"verify">>) }
    ELSE IF ~present_locally
    THEN { Some(register, <<"verify">>) }
    ELSE { Fail(Reason("RegisterNotStored", register.name),
                <<"verify", "local failed">>) }
         \cup
         IF local.kind # "Register"
         THEN { Fail(Reason("RecordKindMismatch", "Register"), <<"verify", "local">>) }
         ELSE LET merged == verified_merge(local.reg, register)
              IN  IF merged = local.reg
                  THEN { [None EXCEPT !.trace = <<"verify", "local">>] }
                  ELSE { Some(merged, <<"verify", "local">>) }

validate_and_store_register(register, st) ==
    LET key == register.name
    IN  { Fin(Reason("RegisterNotStored", register.name), <<"present failed">>) }
        \cup
        { CASE r.tag = "None" -> Fin(Ok("DataAlreadyPresent"), <<"present">> \o r.trace)
            [] r.tag = "Err" -> Fin(r.err, <<"present">> \o r.trace)
            [] OTHER -> ToPut(key, RegisterRecord(r.val), <<"present">> \o r.trace)
          : r \in register_validation(register, st[key] # NoRecord, st[key]) }

\* the orders in which a HashSet may be iterated
RECURSIVE Orders(_)
Orders(S) ==
    IF S = {} THEN { <<>> }
    ELSE UNION { { <<x>> \o t : t \in Orders(S \ {x}) } : x \in S }

\* (variant) the incoming list compared with the local list as a whole
NewlySeenUnlessEqual(signed_spends, local_signed_spends) ==
    IF signed_spends = local_signed_spends THEN {} ELSE Range(signed_spends)

\* (variant) every incoming spend counted as new
NewlySeenUnfiltered(signed_spends, local_signed_spends) == Range(signed_spends)

\* the spends of signed_spends that the local copy does not hold, as a set
NewlySeen(signed_spends, local_signed_spends) ==
    { s \in Range(signed_spends) : s \notin Range(local_signed_spends) }

\* (variant) the first two spends stored in the order of their arrival
DoubleSpendFirstTwo(signed_spends, dbc_id) ==
    SubSeq(signed_spends, 1, Min(Len(signed_spends), MAX_SIGNED_SPENDS_LENGTH))

\* (variant) of two spends or more the one that came last is kept
DoubleSpendLatest(signed_spends, dbc_id) == <<signed_spends[Len(signed_spends)]>>

\* (variant) two spends or more stored as they are, without aggregation
DoubleSpendUnaggregated(signed_spends, dbc_id) == signed_spends

\* two spends or more are a double spend: they are aggregated as they are
DoubleSpend(signed_spends, dbc_id) == aggregate_spends(signed_spends, dbc_id)

\* (variant) the fee-output id of a single spend verified before its signature
SpendDispatchFeeFirst(signed_spends, dbc_id, net, trace) ==
    CASE Len(signed_spends) = 0 ->
           { Fail(Reason("SpendNotStored", "No valid Spend found"), trace) }
      [] Len(signed_spends) = 1 ->
           LET signed_spend == signed_spends[1]
               feeid == verify_fee_output_id(Tx(signed_spend.tx))
               t1 == Append(trace, "feeid")
               t2 == Append(t1, "sig")
               t3 == Append(t2, "parents")
               t4 == Append(t3, "peers")
           IN  IF ~feeid.ok
               THEN { Fail(feeid, t1) }
               ELSE IF ~signed_spend.ok
               THEN { Fail(Reason("InvalidSpendSignature", signed_spend.id), t2) }
               ELSE { Fail(Reason("InvalidSpendParents", signed_spend.id), t3) }
                    \cup { Fail(Reason("SpendNotFound", dbc_id), t4) }
                    \cup { Some(aggregate_spends(Append(spends, signed_spend), dbc_id), t4)
                           : spends \in PeerSpends(net, dbc_id) }
      [] OTHER ->
           { Some(DoubleSpend(signed_spends, dbc_id), Append(trace, "aggregate")) }

\* (variant) two spends or more verified and completed from the peers
SpendDispatchVerified(signed_spends, dbc_id, net, trace) ==
    CASE Len(signed_spends) = 0 ->
           { Fail(Reason("SpendNotStored", "No valid Spend found"), trace) }
      [] OTHER ->
           LET t1 == Append(trace, "sig")
               t4 == Append(t1, "peers")
           IN  IF \E i \in DOMAIN signed_spends : ~signed_spends[i].ok
               THEN { Fail(Reason("InvalidSpendSignature", dbc_id), t1) }
               ELSE { Some(aggregate_spends(spends \o signed_spends, dbc_id), t4)
                      : spends \in PeerSpends(net, dbc_id) }

\* the dispatch of signed_spend_validation on the length of the spends
SpendDispatch(signed_spends, dbc_id, net, trace) ==
    CASE Len(signed_spends) = 0 ->
           { Fail(Reason("SpendNotStored", "No valid Spend found"), trace) }
      [] Len(signed_spends) = 1 ->
           LET signed_spend == signed_spends[1]
               feeid == verify_fee_output_id(Tx(signed_spend.tx))
               t1 == Append(trace, "sig")
               t2 == Append(t1, "feeid")
               t3 == Append(t2, "parents")
               t4 == Append(t3, "peers")
           IN  IF ~signed_spend.ok
               THEN { Fail(Reason("InvalidSpendSignature", signed_spend.id), t1) }
               ELSE IF ~feeid.ok
               THEN { Fail(feeid, t2) }
               ELSE { Fail(Reason("InvalidSpendParents", signed_spend.id), t3) }
                    \cup { Fail(Reason("SpendNotFound", dbc_id), t4) }
                    \cup { Some(aggregate_spends(Append(spends, signed_spend), dbc_id), t4)
                           : spends \in PeerSpends(net, dbc_id) }
      [] OTHER ->
           { Some(DoubleSpend(signed_spends, dbc_id), Append(trace, "aggregate")) }

signed_spend_validation(signed_spends, dbc_id, present_locally, local, net) ==
    IF present_locally
    THEN LET tr == <<"local">>
             failed == <<"local failed">>
         IN  { Fail(Reason("SpendNotStored", "Error while fetching local record"),
                    failed),
               Fail(Reason("SpendNotFound", dbc_id), failed) }
             \cup
             IF local.kind # "DbcSpend"
             THEN { Fail(Reason("RecordKindMismatch", "DbcSpend"), tr) }
             ELSE LET newly_seen_spends == NewlySeen(signed_spends, local.spends)
                  IN  IF newly_seen_spends = {}
                      THEN { [None EXCEPT !.trace = tr] }
                      ELSE UNION { SpendDispatch(local.spends \o news, dbc_id, net, tr)
                                   : news \in Orders(newly_seen_spends) }
    ELSE SpendDispatch(signed_spends, dbc_id, net, <<>>)

\* (variant) the record key built from the dbc_id itself, not from its address
SpendRecordKeyRaw(dbc_id) == dbc_id

\* the key of the record of the spends of dbc_id
SpendRecordKey(dbc_id) == DbcAddrName(dbc_id)

\* the common dbc_id of the spends, 0 when they differ
CommonDbcId(signed_spends) ==
    IF \A i \in DOMAIN signed_spends : signed_spends[i].id = signed_spends[1].id
    THEN signed_spends[1].id
    ELSE 0

\* (variant) the dbc_id of the first spend taken for all the spends
validate_and_store_spends_first_id(signed_spends, st, net) ==
    IF Len(signed_spends) > MAX_SIGNED_SPENDS_LENGTH
    THEN { Fin(Err("MaxNumberOfSpendsExceeded"), <<>>) }
    ELSE IF signed_spends = <<>>
    THEN { Fin(Reason("SpendNotStored", "Spend was not provided"), <<>>) }
    ELSE LET dbc_id == signed_spends[1].id
             key == SpendRecordKey(dbc_id)
         IN  { Fin(Reason("SpendNotStored", "Error while checking presence"),
                   <<"present failed">>) }
             \cup
             { CASE r.tag = "None" ->
                      Fin(Ok("DataAlreadyPresent"), <<"present">> \o r.trace)
                 [] r.tag = "Err" -> Fin(r.err, <<"present">> \o r.trace)
                 [] OTHER -> ToPut(key, SpendRecord(r.val), <<"present">> \o r.trace)
               : r \in signed_spend_validation(signed_spends, dbc_id,
                                               st[key] # NoRecord, st[key], net) }

\* (variant) the length of the list checked after the dbc_ids
validate_and_store_spends_late(signed_spends, st, net) ==
    IF signed_spends = <<>>
    THEN { Fin(Reason("SpendNotStored", "Spend was not provided"), <<>>) }
    ELSE IF CommonDbcId(signed_spends) = 0
    THEN { Fin(Reason("SpendNotStored", "dbc_id does not match"), <<>>) }
    ELSE IF Len(signed_spends) > MAX_SIGNED_SPENDS_LENGTH
    THEN { Fin(Err("MaxNumberOfSpendsExceeded"), <<>>) }
    ELSE LET dbc_id == CommonDbcId(signed_spends)
             key == SpendRecordKey(dbc_id)
         IN  { Fin(Reason("SpendNotStored", "Error while checking presence"),
                   <<"present failed">>) }
             \cup
             { CASE r.tag = "None" ->
                      Fin(Ok("DataAlreadyPresent"), <<"present">> \o r.trace)
                 [] r.tag = "Err" -> Fin(r.err, <<"present">> \o r.trace)
                 [] OTHER -> ToPut(key, SpendRecord(r.val), <<"present">> \o r.trace)
               : r \in signed_spend_validation(signed_spends, dbc_id,
                                               st[key] # NoRecord, st[key], net) }

validate_and_store_spends(signed_spends, st, net) ==
    IF Len(signed_spends) > MAX_SIGNED_SPENDS_LENGTH
    THEN { Fin(Err("MaxNumberOfSpendsExceeded"), <<>>) }
    ELSE IF signed_spends = <<>>
    THEN { Fin(Reason("SpendNotStored", "Spend was not provided"), <<>>) }
    ELSE IF CommonDbcId(signed_spends) = 0
    THEN { Fin(Reason("SpendNotStored", "dbc_id does not match"), <<>>) }
    ELSE LET dbc_id == CommonDbcId(signed_spends)
             key == SpendRecordKey(dbc_id)
         IN  { Fin(Reason("SpendNotStored", "Error while checking presence"),
                   <<"present failed">>) }
             \cup
             { CASE r.tag = "None" ->
                      Fin(Ok("DataAlreadyPresent"), <<"present">> \o r.trace)
                 [] r.tag = "Err" -> Fin(r.err, <<"present">> \o r.trace)
                 [] OTHER -> ToPut(key, SpendRecord(r.val), <<"present">> \o r.trace)
               : r \in signed_spend_validation(signed_spends, dbc_id,
                                               st[key] # NoRecord, st[key], net) }

\* (variant) the double spend reported whether or not the record was stored
PutResultUnchecked(rec, stored) ==
    CASE rec.kind = "DbcSpend" /\ Len(rec.spends) > 1 ->
           DoubleSpendAttempt(rec.spends[1], rec.spends[2])
      [] ~stored /\ rec.kind = "Chunk" -> Reason("ChunkNotStored", rec.chunk.name)
      [] ~stored /\ rec.kind = "Register" -> Reason("RegisterNotStored", rec.reg.name)
      [] ~stored -> Reason("SpendNotStored", "Cannot PUT Spend")
      [] OTHER -> Ok("StoredSuccessfully")

\* the result of a validator once put_local_record has returned
PutResult(rec, stored) ==
    CASE ~stored /\ rec.kind = "Chunk" -> Reason("ChunkNotStored", rec.chunk.name)
      [] ~stored /\ rec.kind = "Register" -> Reason("RegisterNotStored", rec.reg.name)
      [] ~stored -> Reason("SpendNotStored", "Cannot PUT Spend")
      [] rec.kind = "DbcSpend" /\ Len(rec.spends) > 1 ->
           DoubleSpendAttempt(rec.spends[1], rec.spends[2])
      [] OTHER -> Ok("StoredSuccessfully")

\* (variant) a spend list accepted when one of its spends derives the key
validate_and_store_record_any(record, st, net) ==
    CASE record.kind = "Chunk" ->
           IF record.key # record.value.name
           THEN { Fin(Err("RecordKeyMismatch"), <<>>) }
           ELSE validate_and_store_chunk(record.value, st, net)
      [] record.kind = "DbcSpend" ->
           IF ~ \E i \in DOMAIN record.value :
                    record.key = DbcAddrName(record.value[i].id)
           THEN { Fin(Err("RecordKeyMismatch"), <<>>) }
           ELSE validate_and_store_spends(record.value, st, net)
      [] OTHER ->
           IF record.key # record.value.name
           THEN { Fin(Err("RecordKeyMismatch"), <<>>) }
           ELSE validate_and_store_register(record.value, st)

\* validate_and_store_record: the dispatch on the kind of the record
validate_and_store_record(record, st, net) ==
    CASE record.kind = "Chunk" ->
           IF record.key # record.value.name
           THEN { Fin(Err("RecordKeyMismatch"), <<>>) }
           ELSE validate_and_store_chunk(record.value, st, net)
      [] record.kind = "DbcSpend" ->
           IF ~ \A i \in DOMAIN record.value :
                    record.key = DbcAddrName(record.value[i].id)
           THEN { Fin(Err("RecordKeyMismatch"), <<>>) }
           ELSE validate_and_store_spends(record.value, st, net)
      [] OTHER ->
           IF record.key # record.value.name
           THEN { Fin(Err("RecordKeyMismatch"), <<>>) }
           ELSE validate_and_store_register(record.value, st)

\* ------------------------------------------------------------------- state
VARIABLES
    store,      \* the local record store: key -> record
    tasks,      \* the bag of handler tasks that are suspended in a call
    open,       \* the response channels on which no response was sent yet
    last,       \* log of the validation or answer made last (sequential runs)
    sched,      \* "concurrent": handlers interleave; "sequential": one at a time;
                \* "checks": one at a time, with inputs that fail the checks
    initial_join_flows_done,    \* the AtomicBool that Node::run creates
    joiners,    \* the bag of the handler tasks of the churn events
    join,       \* counts of what the PeerAdded handlers have done
    proof,      \* a call of one of the payment-proof verifiers and its result
    pair,       \* two nodes that receive the same records one after the other
    loop,       \* the event loop that Node::run spawns
    files       \* a call of the client's Files API for a batch of chunks

nodeVars == <<store, tasks, open, last>>
joinVars == <<initial_join_flows_done, joiners, join>>

\* the variables that the handlers of records and requests leave alone
aside == <<joinVars, proof, pair, loop, files>>
notJoin == <<nodeVars, sched, proof, pair, loop, files>>
notProof == <<nodeVars, sched, joinVars, pair, loop, files>>
notPair == <<nodeVars, sched, joinVars, proof, loop, files>>
notLoop == <<nodeVars, sched, joinVars, proof, pair, files>>
notFiles == <<nodeVars, sched, joinVars, proof, pair, loop>>

vars == <<nodeVars, sched, joinVars, proof, pair, loop, files>>

Sequential == sched \in {"sequential", "checks"}
Checks == sched = "checks"

\* ----------------------------------------------- what the peers may send
\* The chunks and the registers that arrive have the name 2; the spends of
\* dbc 1 have the key 2 as well, those of dbc 2 the key 1.
InKeys == {2}
InSpends ==
    IF Checks THEN {SpendA, SpendE, SpendF, SpendG}
    ELSE IF Sequential THEN AllSpends ELSE {SpendA, SpendC}
LongSpends ==
    IF Checks THEN {SpendA}
    ELSE IF Sequential THEN {SpendA, SpendD} ELSE {SpendA}
NetSpends ==
    IF Checks THEN {SpendA, SpendB, SpendD, SpendH}
    ELSE IF Sequential THEN {SpendA, SpendB, SpendC} ELSE {SpendA, SpendC}
InPayments ==
    IF Checks THEN {NoPayment, ProofTwo, ProofNoInputs, ProofTwoIds, ProofTwoIdsBack}
    ELSE Payments

SpendLists == ListsOf(InSpends, LongSpends)
ChunksWithPayment == [name : InKeys, payment : InPayments]
Registers ==
    [name : InKeys, ok : IF Checks THEN {TRUE} ELSE BOOLEAN,
     ents : {{e} : e \in IF Checks THEN {1} ELSE Entries}]

UnverifiedRecords ==
    [key : Keys, kind : {"Chunk"}, value : ChunksWithPayment]
    \cup [key : Keys, kind : {"DbcSpend"}, value : SpendLists]
    \cup [key : Keys, kind : {"Register"}, value : Registers]

NoRequest == [kind |-> "none"]

Requests ==
    [kind : {"SpendDbc"}, spend : InSpends]
    \cup [kind : {"Replicate", "RequestReplication", "GetChunk", "GetSpend",
                  "GetReplicatedData"}]

\* holder: whether the holder of the response parses as a PeerId
Responses ==
    [kind : {"Chunk"}, holder : BOOLEAN, value : ChunksWithPayment]
    \cup [kind : {"DbcSpend"}, holder : BOOLEAN, value : SpendLists]
    \cup [kind : {"Register"}, holder : BOOLEAN, value : Registers]
    \cup [kind : {"ReplicatedDataNotFound"}, holder : BOOLEAN]
    \cup [kind : {"ReplicateOk", "Other"}]

\* ------------------------------------------------------------------- tasks
NoArg == <<>>

\* a task suspended in put_local_record
PutTask(op, src, ch, holder, out, seen) ==
    [pc |-> "put", op |-> op, src |-> src, ch |-> ch, holder |-> holder,
     req |-> NoRequest, key |-> out.key, rec |-> out.rec, seen |-> seen,
     trace |-> IF Sequential THEN out.trace ELSE <<>>]

\* a task that was spawned for a request and has not run yet
RequestTask(req, ch) ==
    [pc |-> "request", op |-> req.kind, src |-> "req", ch |-> ch, holder |-> FALSE,
     req |-> req, key |-> 0, rec |-> NoRecord, seen |-> NoRecord, trace |-> <<>>]

InFlight == BagToSet(tasks)
Without(tk) == tasks (-) SetToBag({tk})

\* NodeEvent::SpendStored(dbc_id); no event broadcast
SpendStored(dbc_id) == [event |-> "SpendStored", id |-> dbc_id]
NoEvent == [event |-> "none"]

\* CmdResponse::Spend(result); no response of Cmd::SpendDbc
CmdResponseSpend(res) == [kind |-> "Spend", res |-> res]
NoResponse == [kind |-> "none"]

NoStep ==
    [step |-> "none", fin |-> FALSE, op |-> "none", src |-> "none", arg |-> NoArg,
     rkey |-> 0, res |-> Ok("none"), trace |-> <<>>, answers |-> <<>>, ch |-> 0,
     holder |-> FALSE, notified |-> "no", bcast |-> NoEvent, resp |-> NoResponse,
     again |-> FALSE]

Logged(entry) == IF Sequential THEN entry ELSE NoStep

\* no verifier called; no record delivered to the two nodes
NoCall == [called |-> "none"]
NoPair == <<>>

\* no handler of a churn event ended yet
NoHandler ==
    [event |-> "none", pc |-> "done", arg |-> <<>>, todo |-> <<>>, calls |-> <<>>,
     lookup |-> "skipped"]

\* nothing done yet by a PeerAdded handler
NoJoin ==
    [peers |-> 0, lookups |-> 0, failed |-> 0, succeeded |-> 0, connected |-> 0,
     ended |-> NoHandler]

NodeInit(s) ==
    /\ store = [k \in Keys |-> NoRecord]
    /\ tasks = EmptyBag
    /\ open = {}
    /\ last = NoStep
    /\ sched = s
    /\ initial_join_flows_done = FALSE
    /\ joiners = EmptyBag
    /\ join = NoJoin

NoLoop == [pc |-> "none"]
NoFiles == [pc |-> "none"]

InitWith(s) ==
    /\ NodeInit(s)
    /\ proof = NoCall
    /\ pair = NoPair
    /\ loop = NoLoop
    /\ files = NoFiles

Init == InitWith("concurrent")
InitSeq == InitWith("sequential")
InitChecks == InitWith("checks")

\* the event loop hands an event to a fresh task
CanSpawn ==
    /\ BagCardinality(tasks) < MaxTasks
    /\ Sequential => tasks = EmptyBag

\* what the caller of a validator does with its result
\*   put  (UnverifiedRecord):  the result is traced
\*   repl (handle_response):   Ok: notify_fetch_result when the holder is a peer
\*   cmd  (Cmd::SpendDbc):     Ok: SpendStored is broadcast; a response is sent
Notified(src, holder, res) ==
    IF src = "repl" /\ res.ok /\ holder THEN "fetched" ELSE "no"

\* (variant) SpendStored broadcast whenever the record was written
BroadcastWritten(src, arg, res) ==
    IF src = "cmd" /\ (res = Ok("StoredSuccessfully") \/ res.v = "DoubleSpendAttempt")
    THEN SpendStored(arg[1].id) ELSE NoEvent

\* Cmd::SpendDbc(signed_spend): dbc_id = *signed_spend.dbc_id(), and
\* SpendStored(dbc_id) is broadcast in the Ok arm
Broadcast(src, arg, res) ==
    IF src = "cmd" /\ res.ok THEN SpendStored(arg[1].id) ELSE NoEvent

\* the response of Cmd::SpendDbc: Spend(Ok(cmd_ok)) or Spend(Err(err))
Responded(src, res) ==
    IF src = "cmd" THEN CmdResponseSpend(res) ELSE NoResponse

\* (variant) the response sent for a command only, a query left unanswered
send_response_cmd_only(src, ch) ==
    IF src = "cmd" THEN open \ {ch} ELSE open

\* send_response(resp, response_channel) of handle_request
send_response(src, ch) ==
    IF src \in {"cmd", "req"} THEN open \ {ch} ELSE open

\* the first part of a validation, up to its result or to put_local_record;
\* others: the tasks suspended apart from the one that runs
Validate(others, op, src, ch, holder, arg, rkey, out) ==
    /\ store' = store
    /\ IF out.fin
       THEN /\ tasks' = others
            /\ open' = send_response(src, ch)
       ELSE /\ tasks' = others (+) SetToBag({PutTask(op, src, ch, holder, out,
                                                     store[out.key])})
            /\ open' = open
    /\ last' = Logged([step |-> "validate", fin |-> out.fin, op |-> op, src |-> src,
                       arg |-> arg, rkey |-> rkey, res |-> out.res,
                       trace |-> out.trace, answers |-> out.answers, ch |-> ch,
                       holder |-> holder,
                       notified |-> IF out.fin THEN Notified(src, holder, out.res)
                                    ELSE "no",
                       bcast |-> IF out.fin THEN Broadcast(src, arg, out.res)
                                 ELSE NoEvent,
                       resp |-> IF out.fin THEN Responded(src, out.res)
                                ELSE NoResponse,
                       again |-> last.fin /\ last.op = op /\ last.arg = arg])

\* NetworkEvent::UnverifiedRecord(record)
UnverifiedRecord ==
    /\ CanSpawn
    /\ \E record \in UnverifiedRecords :
         \E out \in validate_and_store_record(record, store, NetSpends) :
            Validate(tasks, record.kind, "put", 0, FALSE, record.value, record.key, out)
    /\ UNCHANGED <<sched, aside>>

\* handle_response for a response that carries replicated data
ReplicatedData(res, st, net) ==
    CASE res.kind = "Chunk" -> validate_and_store_chunk(res.value, st, net)
      [] res.kind = "DbcSpend" -> validate_and_store_spends(res.value, st, net)
      [] OTHER -> validate_and_store_register(res.value, st)

\* NetworkEvent::ResponseReceived { res }
ResponseReceived ==
    /\ CanSpawn
    /\ \E res \in Responses :
         IF res.kind \in {"Chunk", "Register"}
            \/ (res.kind = "DbcSpend" /\ res.value # <<>>)
         THEN \E out \in ReplicatedData(res, store, NetSpends) :
                 Validate(tasks, res.kind, "repl", 0, res.holder, res.value, 0, out)
         ELSE /\ last' = Logged([NoStep EXCEPT
                            !.step = "response", !.fin = TRUE, !.op = res.kind,
                            !.src = "repl",
                            !.holder = res.kind \in {"DbcSpend", "ReplicatedDataNotFound"}
                                       /\ res.holder,
                            !.notified =
                               IF res.kind = "ReplicatedDataNotFound" /\ res.holder
                               THEN "missing" ELSE "no"])
              /\ UNCHANGED <<store, tasks, open>>
    /\ UNCHANGED <<sched, aside>>

\* NetworkEvent::RequestReceived { req, channel }: the handler task is spawned
RequestReceived ==
    /\ CanSpawn
    /\ Chans \ open # {}
    /\ \E req \in Requests :
         LET channel == CHOOSE c \in Chans \ open : \A d \in Chans \ open : c <= d
         IN  /\ tasks' = tasks (+) SetToBag({RequestTask(req, channel)})
             /\ open' = open \cup {channel}
             /\ last' = Logged([NoStep EXCEPT !.step = "request", !.op = req.kind,
                                              !.src = "req", !.ch = channel])
    /\ UNCHANGED <<store, sched, aside>>

\* handle_request of Cmd::SpendDbc(signed_spend)
SpendDbc ==
    /\ \E tk \in InFlight :
         /\ tk.pc = "request"
         /\ tk.req.kind = "SpendDbc"
         /\ \E out \in validate_and_store_spends(<<tk.req.spend>>, store, NetSpends) :
               Validate(Without(tk), "DbcSpend", "cmd", tk.ch, FALSE,
                        <<tk.req.spend>>, 0, out)
    /\ UNCHANGED <<sched, aside>>

\* the response of handle_node_cmd and handle_query to a request that does
\* not validate a record; served: whether the node could serve the request
RequestResponse(kind, served) ==
    CASE kind \in {"Replicate", "RequestReplication"} -> Ok("Replicate")
      [] served -> Ok(kind)
      [] OTHER -> Err(kind)

\* handle_request of the other commands and of the queries
AnswerRequest ==
    /\ \E tk \in InFlight :
         /\ tk.pc = "request"
         /\ tk.req.kind # "SpendDbc"
         /\ \E served \in BOOLEAN :
              last' = Logged([NoStep EXCEPT
                                !.step = "answer", !.fin = TRUE, !.op = tk.op,
                                !.src = "req", !.ch = tk.ch,
                                !.res = RequestResponse(tk.op, served)])
         /\ open' = send_response("req", tk.ch)
         /\ tasks' = Without(tk)
    /\ UNCHANGED <<store, sched, aside>>

\* (variant) the record is in the store also when the call fails
put_local_record_despite_error(st, key, rec, stored) == [st EXCEPT ![key] = rec]

\* self.network.put_local_record(record): the store after the call
put_local_record(st, key, rec, stored) ==
    IF stored THEN [st EXCEPT ![key] = rec] ELSE st

\* put_local_record returns to the validator, which returns to its caller
PutLocalRecord ==
    /\ \E tk \in InFlight :
         /\ tk.pc = "put"
         /\ \E stored \in BOOLEAN :
              LET res == PutResult(tk.rec, stored)
              IN  /\ store' = put_local_record(store, tk.key, tk.rec, stored)
                  /\ last' = Logged([last EXCEPT
                                !.step = "put", !.fin = TRUE, !.res = res,
                                !.trace = Append(tk.trace, IF stored THEN "put"
                                                           ELSE "put failed"),
                                !.notified = Notified(tk.src, tk.holder, res),
                                !.bcast = Broadcast(tk.src, last.arg, res),
                                !.resp = Responded(tk.src, res)])
                  /\ open' = send_response(tk.src, tk.ch)
         /\ tasks' = Without(tk)
    /\ UNCHANGED <<sched, aside>>

Next ==
    \/ UnverifiedRecord
    \/ ResponseReceived
    \/ RequestReceived
    \/ SpendDbc
    \/ AnswerRequest
    \/ PutLocalRecord

Spec == Init /\ [][Next]_vars

\* the same node when the handlers run one after the other
SpecSeq == InitSeq /\ [][Next]_vars

\* the same, with spends and payment proofs that fail the checks
SpecChecks == InitChecks /\ [][Next]_vars

\* ------------------------------------------- calls of the proof verifiers
\* the Merkle tree of a payment for the four names 1..4: its left half is
\* the tree of the names 1 and 2
ProofNames == 1..4
N34 == Hash(<<LeafOf(3), LeafOf(4)>>)
Root4 == Hash(<<RootHash, N34>>)
TreeNodes == { LeafOf(n) : n \in ProofNames } \cup { RootHash, N34 }

AuditTrails == UNION { [1..n -> TreeNodes] : n \in 0..2 }
Paths == UNION { [1..n -> {0, 1}] : n \in 0..2 }

ProofInputs == { <<>>, <<1>>, <<1, 2>>, <<2, 1>> }
ProofRoots == { RootHash, Root4 }
FeeIds == {0} \cup { Hash(<<r>> \o ins) : r \in ProofRoots, ins \in { <<1>>, <<1, 2>> } }

ProofTxs ==
    [inputs : ProofInputs,
     fee : [id : FeeIds, token : 0..MaxToken, root_hash : ProofRoots]]

ProofCalls ==
    [called : {"none"}, addr_name : ProofNames, tx : ProofTxs,
     audit_trail : AuditTrails, path : Paths, res : {Ok("none")}]

InitProof ==
    /\ NodeInit("sequential")
    /\ proof \in ProofCalls
    /\ pair = NoPair
    /\ loop = NoLoop
    /\ files = NoFiles

VerifyFeeOutputId ==
    /\ proof.called = "none"
    /\ proof' = [proof EXCEPT !.called = "verify_fee_output_id",
                              !.res = verify_fee_output_id(proof.tx)]
    /\ UNCHANGED notProof

VerifyFeeOutputAndProof ==
    /\ proof.called = "none"
    /\ proof' = [proof EXCEPT !.called = "verify_fee_output_and_proof",
                              !.res = verify_fee_output_and_proof(
                                         proof.addr_name, proof.tx,
                                         proof.audit_trail, proof.path)]
    /\ UNCHANGED notProof

NextProof ==
    \/ VerifyFeeOutputId
    \/ VerifyFeeOutputAndProof

SpecProof == InitProof /\ [][NextProof]_vars

\* ------------------------------------------------------------ two nodes
\* Two nodes with empty stores receive records one after the other, each
\* node handles one record at a time, and the peers hold no spend.  A node
\* is followed as long as it admits what it receives.
Nodes == {1, 2}
PairNet == {}

PairInputs ==
    [kind : {"Register"}, value : { Register(2, TRUE, {e}) : e \in Entries }]
    \cup [kind : {"DbcSpend"}, value : { <<sp>> : sp \in {SpendA, SpendB, SpendC} }]

NewNode == [store |-> [k \in Keys |-> NoRecord], hist |-> <<>>, res |-> Ok("none")]

Admitted(res) == res.ok \/ res.v = "DoubleSpendAttempt"

InitPair ==
    /\ NodeInit("sequential")
    /\ proof = NoCall
    /\ pair = [n \in Nodes |-> NewNode]
    /\ loop = NoLoop
    /\ files = NoFiles

PairOutcomes(input, st) ==
    IF input.kind = "Register" THEN validate_and_store_register(input.value, st)
    ELSE validate_and_store_spends(input.value, st, PairNet)

\* a whole call of a validator at the node n, put_local_record included
Deliver ==
    /\ \E n \in Nodes :
          /\ Admitted(pair[n].res)
          /\ Len(pair[n].hist) < MaxDeliveries
          /\ \E input \in PairInputs :
                \E out \in PairOutcomes(input, pair[n].store) :
                   \E stored \in BOOLEAN :
                      LET res == IF out.fin THEN out.res
                                 ELSE PutResult(out.rec, stored)
                          st == IF ~out.fin /\ stored
                                THEN [pair[n].store EXCEPT ![out.key] = out.rec]
                                ELSE pair[n].store
                      IN  pair' = [pair EXCEPT ![n] =
                                     IF Admitted(res)
                                     THEN [store |-> st,
                                           hist |-> Append(pair[n].hist, input),
                                           res |-> res]
                                     ELSE [NewNode EXCEPT !.res = res]]
    /\ UNCHANGED notPair

NextPair == Deliver

SpecPair == InitPair /\ [][NextPair]_vars

\* ---------------------------------------------------------- the event loop
\* The task that Node::run spawns.  Time is counted in seconds; the events
\* that the swarm driver sends wait in the channel until recv() takes them.
gen_range(from, to) == from .. (to - 1)
InactivityTimeouts == gen_range(20, 40)

Self == 0
RandomTargets == {1, 2}
NoActivity == [target |-> Self, closest |-> "none", request |-> NoRequest, to |-> "none"]

\* (variant) the sleep of the iteration before is kept
NextIterationSameSleep(l, timeout) ==
    [l EXCEPT !.pc = "select", !.timeout = timeout, !.quiet = 0, !.act = NoActivity]

\* the top of the loop: the timeout is drawn, select! creates recv() and sleep
NextIteration(l, timeout) ==
    [l EXCEPT !.pc = "select", !.timeout = timeout, !.elapsed = 0, !.quiet = 0,
              !.act = NoActivity]

\* a NetworkEvent: the id counts the events in the order the swarm driver
\* sends them, at is the place of the loop when the event was sent
NetworkEvent(id, at) == [id |-> id, at |-> at]

InitLoop ==
    /\ NodeInit("sequential")
    /\ proof = NoCall
    /\ pair = NoPair
    /\ files = NoFiles
    /\ \E timeout \in InactivityTimeouts :
          loop = NextIteration([pc |-> "select", timeout |-> 0, elapsed |-> 0,
                                quiet |-> 0, chan |-> <<>>, sent |-> 0,
                                closed |-> FALSE, bcast |-> <<>>, handlers |-> {},
                                dispatched |-> <<>>, act |-> NoActivity], timeout)

\* the swarm driver sends a NetworkEvent
EventSent ==
    /\ loop.pc # "stopped"
    /\ ~loop.closed
    /\ Len(loop.chan) < MaxPending
    /\ loop.sent < MaxEvents
    /\ loop' = [loop EXCEPT !.chan = Append(@, NetworkEvent(loop.sent + 1, loop.pc)),
                            !.sent = @ + 1]
    /\ UNCHANGED notLoop

\* the swarm driver ends and the sender of the channel is dropped
ChannelClosed ==
    /\ loop.pc # "stopped"
    /\ ~loop.closed
    /\ loop' = [loop EXCEPT !.closed = TRUE]
    /\ UNCHANGED notLoop

\* a second passes while the loop waits in select!
Second ==
    /\ loop.pc = "select"
    /\ loop.elapsed < loop.timeout
    /\ loop' = [loop EXCEPT !.elapsed = @ + 1, !.quiet = @ + 1]
    /\ UNCHANGED notLoop

\* (variant) the loop awaits handle_network_event
SpawnedHandlerAwaited(l, event) ==
    [l EXCEPT !.handlers = @ \cup {event}, !.dispatched = Append(@, event),
              !.pc = "handling"]

\* spawn(async move { stateless_node_copy.handle_network_event(event, ..) }):
\* the JoinHandle is dropped
SpawnedHandler(l, event) ==
    [l EXCEPT !.handlers = @ \cup {event}, !.dispatched = Append(@, event)]

\* recv() returns Some(event): the handler task is spawned
RecvEvent ==
    /\ loop.pc = "select"
    /\ loop.chan # <<>>
    /\ \E timeout \in InactivityTimeouts :
          loop' = SpawnedHandler(NextIteration([loop EXCEPT !.chan = Tail(@)], timeout),
                                 Head(loop.chan))
    /\ UNCHANGED notLoop

\* a handler task ends
HandlerEnds ==
    /\ \E event \in loop.handlers :
          loop' = [loop EXCEPT !.handlers = @ \ {event}]
    /\ UNCHANGED notLoop

\* (variant) the loop goes on after the broadcast
ClosedNoBreak(l) ==
    [l EXCEPT !.bcast = Append(@, "ChannelClosed")]

\* node_event_sender.broadcast(NodeEvent::ChannelClosed); break
Closed(l) ==
    [l EXCEPT !.pc = "stopped", !.bcast = Append(@, "ChannelClosed")]

\* recv() returns None: ChannelClosed is broadcast and the loop ends
RecvNone ==
    /\ loop.pc = "select"
    /\ loop.chan = <<>>
    /\ loop.closed
    /\ loop' = Closed(loop)
    /\ UNCHANGED notLoop

\* (variant) the inactivity actions given to a task of their own
InactiveSpawned(l, target) ==
    [l EXCEPT !.act = [NoActivity EXCEPT !.target = target, !.closest = "asked"]]

\* the sleep branch of select!: the loop itself calls node_get_closest_peers
Inactive(l, target) ==
    [l EXCEPT !.pc = "closest",
              !.act = [NoActivity EXCEPT !.target = target, !.closest = "asked"]]

\* sleep(inactivity_timeout) returns: node_get_closest_peers(random_target)
SleepReturns ==
    /\ loop.pc = "select"
    /\ loop.elapsed >= loop.timeout
    /\ \E target \in RandomTargets :
          loop' = Inactive(loop, target)
    /\ UNCHANGED notLoop

\* node_get_closest_peers returns, and RequestReplication(self) is sent with
\* send_req_no_reply_to_self_closest
ClosestReturns ==
    /\ loop.pc = "closest"
    /\ \E ok \in BOOLEAN :
          loop' = [loop EXCEPT !.pc = "replicate",
                               !.act.closest = IF ok THEN "ok" ELSE "failed",
                               !.act.request = [kind |-> "RequestReplication",
                                                addr |-> Self],
                               !.act.to = "self closest"]
    /\ UNCHANGED notLoop

\* send_req_no_reply_to_self_closest returns, its result is dropped
ReplicationSent ==
    /\ loop.pc = "replicate"
    /\ \E timeout \in InactivityTimeouts :
          loop' = NextIteration(loop, timeout)
    /\ UNCHANGED notLoop

NextLoop ==
    \/ EventSent
    \/ ChannelClosed
    \/ Second
    \/ RecvEvent
    \/ HandlerEnds
    \/ RecvNone
    \/ SleepReturns
    \/ ClosestReturns
    \/ ReplicationSent

SpecLoop == InitLoop /\ [][NextLoop]_vars

\* ------------------------------------------------- the client's Files API
\* upload_large and try_get_chunks of sn_client: the chunks of a file are
\* stored or fetched by tasks that are spawned in batches.
CHUNKS_BATCH_MAX_SIZE == 5

\* the content of the chunk that is stored under the name h, and its name
ContentOf(h) == [hash |-> h]
from_content(content) == content.hash

\* a ChunkInfo of a data map; chunks with the same content have the same
\* dst_hash (written 0 here), the other chunks have a name of their own
ChunkInfo(i, h) == [index |-> i - 1, dst_hash |-> h]
ChunkInfos ==
    UNION { { [i \in 1..n |-> ChunkInfo(i, IF i \in same THEN 0 ELSE i)] :
                same \in SUBSET (1..n) } : n \in 0..MaxChunks }

EncryptedChunk(chunk_info) ==
    [index |-> chunk_info.index, content |-> ContentOf(chunk_info.dst_hash)]

NotEnoughChunksRetrieved(expected, retrieved, missing_chunks) ==
    [ok |-> FALSE, v |-> "NotEnoughChunksRetrieved", expected |-> expected,
     retrieved |-> retrieved, missing_chunks |-> missing_chunks]

FilesCall(op, infos, verify) ==
    [op |-> op, infos |-> infos, verify |-> verify, pc |-> "loop",
     status |-> [i \in DOMAIN infos |-> "todo"], batch |-> {}, retrieved |-> <<>>,
     res |-> Ok("pending")]

InitFiles ==
    /\ NodeInit("sequential")
    /\ proof = NoCall
    /\ pair = NoPair
    /\ loop = NoLoop
    /\ \/ \E infos \in ChunkInfos : files = FilesCall("try_get_chunks", infos, FALSE)
       \/ \E n \in 0..MaxChunks, verify \in BOOLEAN :
             files = FilesCall("upload_large",
                               [i \in 1..n |-> ChunkInfo(i, i)], verify)

Todo(f) == { i \in DOMAIN f.infos : f.status[i] = "todo" }
Running(f) == { i \in DOMAIN f.infos : f.status[i] \in {"running", "verify"} }

\* (variant) all the remaining chunks in one batch
chop_size_all(len) == len

\* std::cmp::min(CHUNKS_BATCH_MAX_SIZE, all_chunks.len()), and the length of
\* a slice of chunks_info.chunks(CHUNKS_BATCH_MAX_SIZE)
chop_size(len) == IF CHUNKS_BATCH_MAX_SIZE < len THEN CHUNKS_BATCH_MAX_SIZE ELSE len

\* the next batch: the first chop_size chunks that were not handled yet
NextBatch(f) ==
    LET first == Len(f.infos) - Cardinality(Todo(f)) + 1
    IN  first .. (first + chop_size(Cardinality(Todo(f))) - 1)

\* the selection of the elements of seq whose index is in S, in order
RECURSIVE Pick(_, _, _)
Pick(seq, S, i) ==
    IF i > Len(seq) THEN <<>>
    ELSE (IF i \in S THEN <<seq[i]>> ELSE <<>>) \o Pick(seq, S, i + 1)

\* the loop head finds chunks left: the tasks of the next batch are spawned
SpawnBatch ==
    /\ files.pc = "loop"
    /\ Todo(files) # {}
    /\ files' = [files EXCEPT !.pc = "join",
                              !.batch = NextBatch(files),
                              !.status = [i \in DOMAIN files.infos |->
                                            IF i \in NextBatch(files) THEN "running"
                                            ELSE files.status[i]]]
    /\ UNCHANGED notFiles

\* client.store_chunk(chunk, payment) returns in a task of upload_large
StoreChunkReturns ==
    /\ files.op = "upload_large"
    /\ \E i \in DOMAIN files.infos :
          /\ files.status[i] = "running"
          /\ \E ok \in BOOLEAN :
                files' = [files EXCEPT !.status[i] =
                            IF ~ok THEN "err"
                            ELSE IF files.verify THEN "verify" ELSE "ok"]
    /\ UNCHANGED notFiles

\* client.get_chunk(address) returns in a task
GetChunkReturns ==
    /\ \E i \in DOMAIN files.infos :
          /\ files.status[i] = IF files.op = "upload_large" THEN "verify" ELSE "running"
          /\ \E ok \in BOOLEAN :
                files' = [files EXCEPT !.status[i] = IF ok THEN "ok" ELSE "err"]
    /\ UNCHANGED notFiles

\* join_all(tasks) returns in upload_large: the first error is returned
JoinUpload ==
    /\ files.op = "upload_large"
    /\ files.pc = "join"
    /\ Running(files) = {}
    /\ LET errs == { i \in files.batch : files.status[i] = "err" }
           first == CHOOSE i \in errs : \A j \in errs : i <= j
       IN  files' = IF errs # {}
                    THEN [files EXCEPT !.pc = "returned", !.res = Reason("Error", first)]
                    ELSE [files EXCEPT !.pc = "loop"]
    /\ UNCHANGED notFiles

\* join_all(tasks) returns in try_get_chunks: the chunks of the tasks that
\* returned Ok are appended to retrieved_chunks
JoinFetch ==
    /\ files.op = "try_get_chunks"
    /\ files.pc = "join"
    /\ Running(files) = {}
    /\ LET got == { i \in files.batch : files.status[i] = "ok" }
           chunks == [k \in 1..Cardinality(got) |->
                        EncryptedChunk(Pick(files.infos, got, 1)[k])]
       IN  files' = [files EXCEPT !.pc = "loop", !.retrieved = @ \o chunks]
    /\ UNCHANGED notFiles

\* the loop head finds no chunk left: the call returns
FilesReturn ==
    /\ files.pc = "loop"
    /\ Todo(files) = {}
    /\ LET expected_count == Len(files.infos)
           retrieved_chunks == files.retrieved
           found(info) == \E k \in DOMAIN retrieved_chunks :
                             from_content(retrieved_chunks[k].content) = info.dst_hash
           missing == { i \in DOMAIN files.infos : ~found(files.infos[i]) }
           missing_chunks == [k \in 1..Cardinality(missing) |->
                                Pick(files.infos, missing, 1)[k].dst_hash]
       IN  files' = [files EXCEPT
                       !.pc = "returned",
                       !.res = IF files.op = "upload_large" THEN Ok("ChunkAddress")
                               ELSE IF expected_count > Len(retrieved_chunks)
                               THEN NotEnoughChunksRetrieved(expected_count,
                                        Len(retrieved_chunks), missing_chunks)
                               ELSE [Ok("chunks") EXCEPT !.w = retrieved_chunks]]
    /\ UNCHANGED notFiles

NextFiles ==
    \/ SpawnBatch
    \/ StoreChunkReturns
    \/ GetChunkReturns
    \/ JoinUpload
    \/ JoinFetch
    \/ FilesReturn

SpecFiles == InitFiles /\ [][NextFiles]_vars

\* ------------------------------------------------------ joining the network
\* The handler tasks of PeerAdded, PeerRemoved and LostRecordDetected.  A
\* handler keeps the peers of its event (arg), those it has still to trigger
\* the replication for (todo), the calls of try_trigger_replication it made
\* (calls) and what became of the lookup of the join (lookup).
ChurnPeers == {1, 2}
LostPeerIds == { <<>>, <<1>>, <<1, 2>>, <<2, 1>> }

Handler(event, pc, peer_ids) ==
    [NoHandler EXCEPT !.event = event, !.pc = pc, !.arg = peer_ids, !.todo = peer_ids]

Spawned(h) ==
    /\ BagCardinality(joiners) < MaxTasks
    /\ joiners' = joiners (+) SetToBag({h})

\* NetworkEvent::PeerAdded(peer_id): the handler task is spawned
PeerAdded ==
    /\ join.peers < MaxPeers
    /\ \E peer_id \in ChurnPeers : Spawned(Handler("PeerAdded", "load", <<peer_id>>))
    /\ join' = [join EXCEPT !.peers = @ + 1]
    /\ UNCHANGED <<notJoin, initial_join_flows_done>>

\* NetworkEvent::PeerRemoved(peer_id): the handler task is spawned
PeerRemoved ==
    /\ \E peer_id \in ChurnPeers : Spawned(Handler("PeerRemoved", "replicate", <<peer_id>>))
    /\ UNCHANGED <<notJoin, initial_join_flows_done, join>>

\* NetworkEvent::LostRecordDetected(peer_ids): the handler task is spawned;
\* with no peer it ends at once
LostRecordDetected ==
    /\ \E peer_ids \in LostPeerIds :
          IF peer_ids = <<>>
          THEN /\ BagCardinality(joiners) < MaxTasks
               /\ joiners' = joiners
               /\ join' = [join EXCEPT !.ended =
                             Handler("LostRecordDetected", "done", peer_ids)]
          ELSE /\ Spawned(Handler("LostRecordDetected", "replicate", peer_ids))
               /\ join' = join
    /\ UNCHANGED <<notJoin, initial_join_flows_done>>

\* a handler moves on: from is replaced by to
Moves(from, to) ==
    /\ BagIn(from, joiners)
    /\ joiners' = (joiners (-) SetToBag({from})) (+) SetToBag({to})

\* initial_join_underway_or_done.load(Ordering::SeqCst)
LoadJoinFlag ==
    /\ \E h \in BagToSet(joiners) :
          /\ h.pc = "load"
          /\ Moves(h, [h EXCEPT !.pc = IF initial_join_flows_done THEN "replicate"
                                       ELSE "store"])
    /\ UNCHANGED <<notJoin, initial_join_flows_done, join>>

\* initial_join_underway_or_done.store(true, Ordering::SeqCst) and the call
\* of node_get_closest_peers for the address of the node
StoreJoinFlag ==
    /\ \E h \in BagToSet(joiners) :
          /\ h.pc = "store"
          /\ Moves(h, [h EXCEPT !.pc = "lookup"])
    /\ initial_join_flows_done' = TRUE
    /\ join' = [join EXCEPT !.lookups = @ + 1]
    /\ UNCHANGED notJoin

\* (variant) ConnectedToNetwork broadcast in the Ok arm only
LookupReturnedOkOnly(j, ok) ==
    [j EXCEPT !.succeeded = IF ok THEN @ + 1 ELSE @,
              !.failed = IF ok THEN @ ELSE @ + 1,
              !.connected = IF ok THEN @ + 1 ELSE @]

\* the lookup of the join returned Ok or Err, and after the if-else
\* self.events_channel.broadcast(NodeEvent::ConnectedToNetwork)
LookupReturned(j, ok) ==
    [j EXCEPT !.succeeded = IF ok THEN @ + 1 ELSE @,
              !.failed = IF ok THEN @ ELSE @ + 1,
              !.connected = @ + 1]

\* node_get_closest_peers returns: the flag is cleared when it failed, and
\* ConnectedToNetwork is broadcast
ClosestPeersReturn ==
    /\ \E h \in BagToSet(joiners), ok \in BOOLEAN :
          /\ h.pc = "lookup"
          /\ Moves(h, [h EXCEPT !.pc = "replicate",
                                !.lookup = IF ok THEN "ok" ELSE "failed"])
          /\ initial_join_flows_done' = IF ok THEN initial_join_flows_done ELSE FALSE
          /\ join' = LookupReturned(join, ok)
    /\ UNCHANGED notJoin

\* (variant) the loop over the peers left at the first trigger that fails
TriggeredUntilError(h, ok) ==
    [h EXCEPT !.todo = IF ok THEN Tail(@) ELSE <<>>,
              !.calls = Append(@, [peer |-> Head(h.todo),
                                   lost |-> h.event = "PeerRemoved", ok |-> ok])]

\* try_trigger_replication(peer_id, lost) returned to the handler h: its
\* error is logged and the handler goes on
Triggered(h, ok) ==
    [h EXCEPT !.todo = Tail(@),
              !.calls = Append(@, [peer |-> Head(h.todo),
                                   lost |-> h.event = "PeerRemoved", ok |-> ok])]

\* try_trigger_replication returns; after the last peer the handler ends
TriggerReplication ==
    /\ \E h \in BagToSet(joiners), ok \in BOOLEAN :
          /\ h.pc = "replicate"
          /\ LET to == Triggered(h, ok)
             IN  IF to.todo = <<>>
                 THEN /\ joiners' = joiners (-) SetToBag({h})
                      /\ join' = [join EXCEPT !.ended = [to EXCEPT !.pc = "done"]]
                 ELSE /\ Moves(h, to)
                      /\ join' = join
    /\ UNCHANGED <<notJoin, initial_join_flows_done>>

NextJoin ==
    \/ PeerAdded
    \/ PeerRemoved
    \/ LostRecordDetected
    \/ LoadJoinFlag
    \/ StoreJoinFlag
    \/ ClosestPeersReturn
    \/ TriggerReplication

\* the node while peers are added to and removed from its routing table
SpecJoin == Init /\ [][NextJoin]_vars

TypeOK ==
    /\ \A k \in Keys : store[k].kind \in {"None", "Chunk", "Register", "DbcSpend"}
    /\ \A tk \in InFlight : tk.pc \in {"put", "request"}
    /\ open \subseteq Chans
    /\ sched \in {"concurrent", "sequential", "checks"}
    /\ initial_join_flows_done \in BOOLEAN
    /\ \A h \in BagToSet(joiners) : h.pc \in {"load", "store", "lookup", "replicate"}
    /\ join.lookups <= join.peers

\* ------------------------------------------------------------ properties
Last(seq) == seq[Len(seq)]

\* the keys that the payload of a record derives
PayloadKeys(rec) ==
    CASE rec.kind = "Chunk" -> { rec.chunk.name }
      [] rec.kind = "Register" -> { rec.reg.name }
      [] rec.kind = "DbcSpend" ->
           { DbcAddrName(rec.spends[i].id) : i \in DOMAIN rec.spends }
      [] OTHER -> {}

\* the step was the first part of a call of the validator of op (a record
\* whose key does not match never reaches a validator)
Called(l, op) ==
    /\ l.step = "validate"
    /\ l.op = op
    /\ ~(l.src = "put" /\ l.res = Err("RecordKeyMismatch"))

NoFailure(trace) ==
    \A i \in DOMAIN trace :
        trace[i] \notin {"present failed", "local failed", "put failed"}

\* C1: the key of every stored record is the key that its payload derives:
\* the name of the chunk, the name of the register, the address of the dbc_id
\* of every spend of a spend record.
C1_KeyDerivedFromPayload ==
    \A k \in Keys : store[k] # NoRecord => PayloadKeys(store[k]) = {k}

C1_Witness ==
    /\ store[1].kind = "DbcSpend"
    /\ store[2].kind = "DbcSpend"
    /\ Len(store[2].spends) = 2
    /\ last.step = "put"
    /\ last.src = "repl"
    /\ last.op = "DbcSpend"
    /\ Last(last.trace) = "put"

\* C2: a spend validation returns DoubleSpendAttempt(w1, w2) only once the
\* record that holds w1 and w2 was written under the key of their common
\* dbc_id; when the write fails the result is SpendNotStored.
C2_DoubleSpendAfterWrite ==
    (last.fin /\ last.op = "DbcSpend" /\ last.step \in {"validate", "put"}) =>
        /\ last.res.v = "DoubleSpendAttempt" =>
             LET w == last.res.w
                 key == DbcAddrName(w[1].id)
             IN  /\ last.step = "put"
                 /\ Last(last.trace) = "put"
                 /\ w[1].id = w[2].id
                 /\ w[1].id = last.arg[1].id
                 /\ store[key] = SpendRecord(w)
        /\ (last.step = "put" /\ Last(last.trace) = "put failed") =>
             last.res.v = "SpendNotStored"

C2_Witness ==
    /\ last.fin
    /\ last.op = "DbcSpend"
    /\ last.res.v = "DoubleSpendAttempt"
    /\ last.src = "cmd"
    /\ store[2] = SpendRecord(last.res.w)

\* C3: every stored spend record holds one or two signed spends, and all of
\* them have the dbc_id that derives the key of the record.
C3_SpendRecordShape ==
    \A k \in Keys :
        store[k].kind = "DbcSpend" =>
            /\ Len(store[k].spends) \in 1..2
            /\ \A i \in DOMAIN store[k].spends :
                   SpendRecordKey(store[k].spends[i].id) = k

C3_Witness ==
    /\ store[1].kind = "DbcSpend"
    /\ Len(store[1].spends) = 1
    /\ store[2].kind = "DbcSpend"
    /\ Len(store[2].spends) = 2
    /\ "aggregate" \in Range(last.trace)

\* C4: validations of the same key are serialized: a validation writes over
\* the record that it has read, no other write of the key comes in between.
C4_SerializedPerKey ==
    [][ \A tk \in InFlight :
            (tk.pc = "put" /\ tasks' = Without(tk) /\ store' # store)
                => store[tk.key] = tk.seen ]_vars

\* C5: a chunk that is present under its key is never changed, also when
\* validate_and_store_chunk runs concurrently for the same chunk.
C5_ChunkNeverMutated ==
    [][ \A tk \in InFlight :
            ( /\ tk.pc = "put"
              /\ tk.op = "Chunk"
              /\ tasks' = Without(tk)
              /\ store[tk.key].kind = "Chunk" )
            => store'[tk.key] = store[tk.key] ]_vars

\* C6: when the chunk is present locally, validate_and_store_chunk returns
\* DataAlreadyPresent, validates no payment and writes nothing.
C6_PresentChunkShortCircuit ==
    [][ ( /\ Called(last', "Chunk")
          /\ last'.trace # <<"present failed">>
          /\ store[last'.arg.name] # NoRecord )
        => /\ last'.fin
           /\ last'.res = Ok("DataAlreadyPresent")
           /\ last'.trace = <<"present">>
           /\ store' = store
           /\ tasks' = tasks ]_vars

C6_Witness ==
    /\ Called(last, "Chunk")
    /\ last.res = Ok("DataAlreadyPresent")
    /\ last.arg.payment.some
    /\ store[last.arg.name].kind = "Chunk"
    /\ store[last.arg.name].chunk.payment # last.arg.payment

\* the second of two calls in sequence with the same single signed spend,
\* its reads of the local store having succeeded
SecondCall(l) ==
    /\ Called(l, "DbcSpend")
    /\ Len(l.arg) = 1
    /\ l.again
    /\ NoFailure(l.trace)

C8_TooManySpends ==
    [][ (Called(last', "DbcSpend") /\ Len(last'.arg) > 2)
        => /\ last'.fin
           /\ last'.res = Err("MaxNumberOfSpendsExceeded")
           /\ last'.trace = <<>>
           /\ store' = store
           /\ tasks' = tasks ]_vars

C8_Witness ==
    /\ Called(last, "DbcSpend")
    /\ Len(last.arg) = 3
    /\ \E i \in DOMAIN last.arg : last.arg[i].id # last.arg[1].id
    /\ last.res = Err("MaxNumberOfSpendsExceeded")

\* the key of the record differs from the key that the payload derives
KeyMismatch(l) ==
    CASE l.op \in {"Chunk", "Register"} -> l.rkey # l.arg.name
      [] l.op = "DbcSpend" ->
           \E i \in DOMAIN l.arg : l.rkey # DbcAddrName(l.arg[i].id)
      [] OTHER -> FALSE

\* C9: validate_and_store_record returns RecordKeyMismatch, calls no
\* validator and writes nothing when the key of the record differs from the
\* key derived from the payload (for a spend list: from any of its spends).
C9_RecordKeyMismatch ==
    [][ ( /\ last'.step = "validate"
          /\ last'.src = "put"
          /\ KeyMismatch(last') )
        => /\ last'.fin
           /\ last'.res = Err("RecordKeyMismatch")
           /\ last'.trace = <<>>
           /\ store' = store
           /\ tasks' = tasks ]_vars

C9_Witness ==
    /\ last.step = "validate"
    /\ last.src = "put"
    /\ last.op = "DbcSpend"
    /\ Len(last.arg) = 2
    /\ DbcAddrName(last.arg[1].id) = last.rkey
    /\ DbcAddrName(last.arg[2].id) # last.rkey
    /\ last.res = Err("RecordKeyMismatch")

\* the tasks that handle a request
RequestTasks == { tk \in InFlight : tk.src \in {"req", "cmd"} }

\* C10: every request gets one response, on its own channel: a channel is
\* open exactly as long as the one task that handles its request runs, for
\* every command and query and whatever the result of the handling.
C10_OneResponsePerRequest ==
    /\ open = { tk.ch : tk \in RequestTasks }
    /\ \A tk \in RequestTasks :
          /\ CopiesIn(tk, tasks) = 1
          /\ \A other \in RequestTasks : other.ch = tk.ch => other = tk

C10_Witness ==
    /\ open = {2}
    /\ \E tk \in RequestTasks : tk.ch = 2 /\ tk.pc = "put"

\* C11: as long as no closest-peers lookup has failed, the lookup is run once
\* and ConnectedToNetwork is broadcast once, however many PeerAdded events
\* arrive and however their handlers interleave.
C11_SingleJoinLookup ==
    join.failed = 0 => (join.lookups <= 1 /\ join.connected <= 1)

\* C12: the join flag is set while a lookup runs, is cleared only by a failed
\* lookup, and stays set once a lookup has succeeded.
C12_JoinFlagLifecycle ==
    [][ /\ (initial_join_flows_done' # initial_join_flows_done) =>
              IF initial_join_flows_done' THEN join'.lookups = join.lookups + 1
                                          ELSE join'.failed = join.failed + 1
        /\ join'.failed > join.failed => ~initial_join_flows_done'
        /\ join'.succeeded > 0 => initial_join_flows_done' ]_vars

\* C13: every response that carries replicated data from a holder that is a
\* peer is validated and then notified to the pending-fetch table.
C13_FetchNotified ==
    ( /\ last.fin
      /\ last.src = "repl"
      /\ last.op \in {"Chunk", "Register", "DbcSpend"}
      /\ last.holder )
    => /\ last.step \in {"validate", "put"}
       /\ last.notified = "fetched"

\* the id of the fee output is the hash of the root hash and the input ids
FeeIdIsHash(tx) == tx.fee.id = Hash(<<tx.fee.root_hash>> \o tx.inputs)

\* the leaf index that the audit trail and the path of the call prove, or -1
ProvedLeaf ==
    validate_payment_proof(proof.addr_name, proof.tx.fee.root_hash,
                           proof.audit_trail, proof.path)

ProofChecked == proof.called = "verify_fee_output_and_proof"

\* C14: with a valid fee-output id and a proof of leaf index i,
\* verify_fee_output_and_proof returns Ok exactly when the fee pays more than
\* i nanos, and otherwise PaymentProofInsufficientAmount{paid, expected: i + 1}.
C14_AmountAgainstLeafIndex ==
    (ProofChecked /\ FeeIdIsHash(proof.tx) /\ ProvedLeaf >= 0) =>
        IF proof.tx.fee.token > ProvedLeaf
        THEN proof.res = Ok("valid")
        ELSE proof.res = [ok |-> FALSE, v |-> "PaymentProofInsufficientAmount",
                          w |-> <<proof.tx.fee.token, ProvedLeaf + 1>>]

C14_Witness ==
    /\ ProofChecked
    /\ FeeIdIsHash(proof.tx)
    /\ ProvedLeaf = 2
    /\ proof.tx.fee.token = 2
    /\ proof.res.w = <<2, 3>>

\* C15: with a valid fee-output id and an audit trail or path that does not
\* lead from the address name to the root hash, the result is
\* InvalidPaymentProof with that address name, whatever the fee pays.
C15_InvalidProofNamed ==
    (ProofChecked /\ FeeIdIsHash(proof.tx) /\ ProvedLeaf < 0) =>
        proof.res = [ok |-> FALSE, v |-> "InvalidPaymentProof",
                     w |-> <<proof.addr_name>>]

C15_Witness ==
    /\ ProofChecked
    /\ FeeIdIsHash(proof.tx)
    /\ proof.audit_trail = <<>>
    /\ proof.tx.fee.token = 3
    /\ proof.addr_name = 3
    /\ proof.res.v = "InvalidPaymentProof"

\* C16 (as stated): verify_fee_output_id succeeds if and only if the fee id
\* is the hash of the root hash followed by the ids of the inputs, in order.
C16_FeeIdIffHash ==
    proof.called = "verify_fee_output_id" =>
        (proof.res.ok <=> FeeIdIsHash(proof.tx))

\* C16 (amended): verify_fee_output_id succeeds if and only if the fee is
\* free or its id is that hash; it fails with the id of the fee.
C16_FeeIdIffHashOrFree ==
    proof.called = "verify_fee_output_id" =>
        IF IsFree(proof.tx.fee) \/ FeeIdIsHash(proof.tx)
        THEN proof.res = Ok("valid")
        ELSE proof.res = [ok |-> FALSE, v |-> "PaymentProofInvalidFeeOutput",
                          w |-> <<proof.tx.fee.id>>]

C16_Witness ==
    /\ proof.called = "verify_fee_output_id"
    /\ proof.res.ok
    /\ IsFree(proof.tx.fee)
    /\ ~FeeIdIsHash(proof.tx)

\* C17: the id of the fee output is checked first: a non-free fee with a
\* wrong id gives PaymentProofInvalidFeeOutput(fee.id) also with an invalid
\* proof or a small amount, and an invalid proof is reported before the amount.
C17_FeeIdCheckedFirst ==
    ProofChecked =>
        /\ (~IsFree(proof.tx.fee) /\ ~FeeIdIsHash(proof.tx)) =>
               proof.res = [ok |-> FALSE, v |-> "PaymentProofInvalidFeeOutput",
                            w |-> <<proof.tx.fee.id>>]
        /\ proof.res.v = "PaymentProofInsufficientAmount" => ProvedLeaf >= 0

C17_Witness ==
    /\ ProofChecked
    /\ proof.res.v = "PaymentProofInvalidFeeOutput"
    /\ ProvedLeaf < 0
    /\ proof.tx.fee.token = 1

\* C18: a validly signed register whose key holds a register locally is
\* merged into the local copy: DataAlreadyPresent and no write exactly when
\* the merge equals the local copy, otherwise the merged register is written
\* and the result is StoredSuccessfully; the same register submitted twice
\* gives DataAlreadyPresent the second time.
C18_RegisterMerged ==
    [][ /\ ( /\ Called(last', "Register")
             /\ last'.arg.ok
             /\ NoFailure(last'.trace)
             /\ store[last'.arg.name].kind = "Register" )
           => LET local == store[last'.arg.name].reg
                  merged == verified_merge(local, last'.arg)
              IN  /\ store' = store
                  /\ IF merged = local
                     THEN /\ last'.fin
                          /\ last'.res = Ok("DataAlreadyPresent")
                          /\ tasks' = tasks
                     ELSE /\ ~last'.fin
                          /\ \A tk \in BagToSet(tasks') :
                                /\ tk.key = last'.arg.name
                                /\ tk.rec = RegisterRecord(merged)
                  /\ (last.res.ok /\ last'.again) => merged = local
        /\ ( /\ last'.step = "put"
             /\ last'.op = "Register"
             /\ Last(last'.trace) = "put" )
           => /\ last'.res = Ok("StoredSuccessfully")
              /\ \A tk \in InFlight : store'[tk.key] = tk.rec ]_vars

C18_Witness ==
    /\ last.step = "put"
    /\ last.op = "Register"
    /\ last.trace = <<"present", "verify", "local", "put">>
    /\ last.arg.ents = {2}
    /\ store[2] = RegisterRecord(Register(2, TRUE, {1, 2}))
    /\ last.res = Ok("StoredSuccessfully")

\* the history of a node holds registers only
RegistersOnly(nd) == \A i \in DOMAIN nd.hist : nd.hist[i].kind = "Register"

\* C19: the register that a node stores is the merge of the registers it
\* admitted, whatever the order of their arrival, and a register that arrives
\* once more changes nothing.
C19_RegisterOrderIndependent ==
    \A a \in Nodes, b \in Nodes :
        ( /\ pair[a].hist # <<>>
          /\ RegistersOnly(pair[a])
          /\ RegistersOnly(pair[b])
          /\ Range(pair[a].hist) = Range(pair[b].hist) )
        => /\ pair[a].store = pair[b].store
           /\ LET h == pair[a].hist
              IN  (Len(h) > 1 /\ Last(h) \in Range(SubSeq(h, 1, Len(h) - 1)))
                      => pair[a].res = Ok("DataAlreadyPresent")

C19_Witness ==
    /\ Len(pair[1].hist) = 3
    /\ pair[1].hist[1] # pair[1].hist[2]
    /\ pair[1].hist[3] = pair[1].hist[1]
    /\ pair[2].hist = <<pair[1].hist[2], pair[1].hist[1]>>
    /\ RegistersOnly(pair[1])
    /\ pair[2].store[2] = RegisterRecord(Register(2, TRUE, {1, 2}))

\* the node nd received the single spends sa and then sb, and nothing else
Received(nd, sa, sb) ==
    nd.hist = << [kind |-> "DbcSpend", value |-> <<sa>>],
                 [kind |-> "DbcSpend", value |-> <<sb>>] >>

\* C20: two nodes that receive the same two conflicting spends in opposite
\* orders store the same record with both spends in the same order, and both
\* report the same DoubleSpendAttempt(w1, w2) on the second PUT.
C20_SpendOrderIndependent ==
    \A sa \in {SpendA, SpendB, SpendC}, sb \in {SpendA, SpendB, SpendC} :
        (sa.tx # sb.tx /\ Received(pair[1], sa, sb) /\ Received(pair[2], sb, sa))
        => /\ pair[1].store = pair[2].store
           /\ pair[1].res = pair[2].res
           /\ pair[1].res.v = "DoubleSpendAttempt"
           /\ pair[1].store[SpendRecordKey(sa.id)] = SpendRecord(pair[1].res.w)
           /\ Range(pair[1].res.w) = {sa, sb}

C20_Witness ==
    /\ Received(pair[1], SpendA, SpendB)
    /\ Received(pair[2], SpendB, SpendA)
    /\ pair[1].res = DoubleSpendAttempt(SpendB, SpendA)
    /\ pair[2].store[2] = SpendRecord(<<SpendB, SpendA>>)

\* C21: every iteration of the event loop has a timeout of 20 s to 40 s that
\* starts anew; the inactivity actions start only when the loop took no event
\* for the whole timeout of the iteration; they are a closest-peers query to a
\* random target and then RequestReplication(self) to the closest peers of
\* the node, also when the query failed.
C21_InactivityActions ==
    [][ /\ loop'.pc = "select"
           => /\ loop'.timeout >= 20 /\ loop'.timeout <= 40
              /\ (loop.pc # "select" \/ Len(loop'.chan) < Len(loop.chan))
                    => loop'.elapsed = 0
        /\ (loop'.pc = "closest" /\ loop.pc # "closest")
           => /\ loop.pc = "select"
              /\ loop.quiet >= loop.timeout
              /\ loop'.chan = loop.chan
              /\ loop'.act.target \in RandomTargets
              /\ loop'.act.request = NoRequest
        /\ (loop.pc = "closest" /\ loop'.pc # "closest")
           => /\ loop'.pc = "replicate"
              /\ loop'.act.closest \in {"ok", "failed"}
              /\ loop'.act.request = [kind |-> "RequestReplication", addr |-> Self]
              /\ loop'.act.to = "self closest"
        /\ (loop'.pc = "replicate") => loop.pc \in {"closest", "replicate"} ]_vars

C21_Witness ==
    /\ loop.pc = "replicate"
    /\ loop.act.closest = "failed"
    /\ loop.act.request = [kind |-> "RequestReplication", addr |-> Self]
    /\ loop.quiet = loop.timeout

\* C22: upload_large and try_get_chunks have at most CHUNKS_BATCH_MAX_SIZE
\* tasks in flight, and the tasks of a batch start when no task of the batch
\* before is still running.
C22_BatchesOfFive ==
    [][ /\ Cardinality(Running(files')) <= 5
        /\ (\E i \in DOMAIN files.infos :
               files.status[i] = "todo" /\ files'.status[i] # "todo")
           => /\ Running(files) = {}
              /\ \A i \in DOMAIN files.infos : files.status[i] \in {"todo", "ok", "err"} ]_vars

C22_Witness ==
    /\ files.op = "try_get_chunks"
    /\ Len(files.infos) = 6
    /\ files.status[6] = "running"
    /\ \E i \in 1..5 : files.status[i] = "err"

\* the indices of the requested chunks whose fetch failed
FailedFetches == { i \in DOMAIN files.infos : files.status[i] = "err" }

\* C23: try_get_chunks returns Ok with all the chunks exactly when every
\* fetch succeeded; otherwise, every batch having been attempted, it returns
\* NotEnoughChunksRetrieved with the number of requested chunks, the number of
\* successful fetches, and as missing_chunks exactly the names whose fetch
\* failed, as many as expected minus retrieved.
C23_NotEnoughChunks ==
    (files.op = "try_get_chunks" /\ files.pc = "returned")
    => /\ Todo(files) = {}
       /\ files.res.ok <=> FailedFetches = {}
       /\ files.res.ok
          => files.res.w = [i \in DOMAIN files.infos |-> EncryptedChunk(files.infos[i])]
       /\ ~files.res.ok
          => /\ files.res.v = "NotEnoughChunksRetrieved"
             /\ files.res.expected = Len(files.infos)
             /\ files.res.retrieved = Len(files.infos) - Cardinality(FailedFetches)
             /\ Range(files.res.missing_chunks)
                   = { files.infos[i].dst_hash : i \in FailedFetches }
             /\ Len(files.res.missing_chunks)
                   = files.res.expected - files.res.retrieved

\* the lists that signed_spend_validation may dispatch on: the submitted
\* spends, or the local spends followed by the newly seen ones
EffectiveSpends(signed_spends, local) ==
    IF local = NoRecord THEN { signed_spends }
    ELSE IF local.kind # "DbcSpend" THEN {}
    ELSE { local.spends \o news
           : news \in Orders(NewlySeen(signed_spends, local.spends)) \ { <<>> } }

\* the call of validate_and_store_spends logged last came to the dispatch
Dispatched ==
    /\ Called(last, "DbcSpend")
    /\ "present" \in Range(last.trace)
    /\ "local failed" \notin Range(last.trace)
    /\ EffectiveSpends(last.arg, store[SpendRecordKey(CommonDbcId(last.arg))]) # {}

\* C24: with two or more spends to dispatch on, signed_spend_validation
\* aggregates them as they are: no signature check, no fee-output id check,
\* no parent check and no query to the peers is made.
C24_DoubleSpendAggregatedDirectly ==
    Dispatched
    => LET dbc_id == CommonDbcId(last.arg)
           lists == EffectiveSpends(last.arg, store[SpendRecordKey(dbc_id)])
       IN  (\A spends \in lists : Len(spends) >= 2)
           => /\ Range(last.trace) \cap {"sig", "feeid", "parents", "peers"} = {}
              /\ Last(last.trace) = "aggregate"
              /\ ~last.fin
              /\ \A tk \in InFlight :
                    \E spends \in lists :
                       tk.rec = SpendRecord(aggregate_spends(spends, dbc_id))

C24_Witness ==
    /\ Dispatched
    /\ last.trace = <<"present", "local", "aggregate">>
    /\ Len(last.arg) = 1
    /\ ~last.arg[1].ok

\* the call logged last validates a single spend of a dbc_id that has no
\* local record
SingleNewSpend ==
    /\ Called(last, "DbcSpend")
    /\ Len(last.arg) = 1
    /\ last.trace # <<>>
    /\ last.trace[1] = "present"
    /\ store[SpendRecordKey(last.arg[1].id)] = NoRecord

\* C25: a single spend without a local record is handed to the store after
\* its signature, its fee-output id and its parents were verified and the
\* witnesses of the peers were fetched and aggregated with it, in that order;
\* the first step that fails returns its error (InvalidSpendSignature,
\* PaymentProofInvalidFeeOutput, InvalidSpendParents) and nothing is written.
C25_SingleSpendChecks ==
    /\ SingleNewSpend
       => LET signed_spend == last.arg[1]
              feeid == verify_fee_output_id(Tx(signed_spend.tx))
              checks == <<"present", "sig", "feeid", "parents", "peers">>
          IN  /\ ~signed_spend.ok
                 => /\ last.fin /\ last.res.v = "InvalidSpendSignature"
                    /\ last.trace = SubSeq(checks, 1, 2)
              /\ (signed_spend.ok /\ ~feeid.ok)
                 => /\ last.fin /\ last.res = feeid
                    /\ last.res.v = "PaymentProofInvalidFeeOutput"
                    /\ last.trace = SubSeq(checks, 1, 3)
              /\ (signed_spend.ok /\ feeid.ok)
                 => \/ /\ last.fin /\ last.res.v = "InvalidSpendParents"
                       /\ last.trace = SubSeq(checks, 1, 4)
                    \/ /\ last.fin /\ last.res.v = "SpendNotFound"
                       /\ last.trace = checks
                    \/ /\ ~last.fin /\ last.trace = checks
                       /\ \A tk \in InFlight :
                             \E spends \in PeerSpends(NetSpends, signed_spend.id) :
                                tk.rec = SpendRecord(aggregate_spends(
                                            Append(spends, signed_spend),
                                            signed_spend.id))
              /\ last.fin => InFlight = {}
    /\ ( /\ last.step = "put" /\ last.op = "DbcSpend"
         /\ "sig" \in Range(last.trace) )
       => /\ SubSeq(last.trace, 1, 5) = <<"present", "sig", "feeid", "parents", "peers">>
          /\ Len(last.trace) = 6
          /\ last.arg[1].ok
          /\ verify_fee_output_id(Tx(last.arg[1].tx)).ok

C25_Witness ==
    /\ SingleNewSpend
    /\ last.arg = <<SpendF>>
    /\ last.res.v = "PaymentProofInvalidFeeOutput"
    /\ store = [k \in Keys |-> NoRecord]

\* the spends of the call logged last do not all have the same dbc_id
MixedDbcIds ==
    \E i \in DOMAIN last.arg : last.arg[i].id # last.arg[1].id

\* the call returned SpendNotStored before the store or the peers were asked
RejectedAtOnce ==
    /\ last.fin
    /\ last.res.v = "SpendNotStored"
    /\ last.trace = <<>>
    /\ InFlight = {}

\* an empty list of spends that arrives in a record comes to the validator
EmptyRecordRejected ==
    ( /\ last.step = "validate" /\ last.src = "put"
      /\ last.op = "DbcSpend" /\ last.arg = <<>> )
    => /\ last.res = Reason("SpendNotStored", "Spend was not provided")
       /\ RejectedAtOnce

\* C26: validate_and_store_spends with an empty list, or with spends of
\* different dbc_ids, returns SpendNotStored before the store or the peers
\* are asked; an empty list in a DbcSpend record passes the key check of the
\* dispatcher and is rejected in this way.
C26_EmptyOrMixedRejected ==
    /\ (Called(last, "DbcSpend") /\ (last.arg = <<>> \/ MixedDbcIds))
       => RejectedAtOnce
    /\ EmptyRecordRejected

\* C26 (amended): the same for lists of at most MAX_SIGNED_SPENDS_LENGTH
\* spends; a longer list is rejected for its length before its dbc_ids are
\* compared.
C26_ShortEmptyOrMixedRejected ==
    /\ ( /\ Called(last, "DbcSpend")
         /\ Len(last.arg) <= MAX_SIGNED_SPENDS_LENGTH
         /\ (last.arg = <<>> \/ MixedDbcIds) )
       => RejectedAtOnce
    /\ EmptyRecordRejected

C26_Witness ==
    /\ Called(last, "DbcSpend")
    /\ last.arg = <<SpendA, SpendD>>
    /\ last.res = Reason("SpendNotStored", "dbc_id does not match")
    /\ store[2] = SpendRecord(<<SpendA>>)

\* the call logged last validates a chunk with a payment proof whose name is
\* not held locally
PaidChunk ==
    /\ last.op = "Chunk"
    /\ last.step \in {"validate", "put"}
    /\ ~(last.src = "put" /\ last.res = Err("RecordKeyMismatch"))
    /\ last.arg.payment.some
    /\ last.trace # <<>>
    /\ last.trace[1] = "present"
    /\ last.step = "validate" => store[last.arg.name] = NoRecord

\* the peers returned exactly one witness for every spent id of the proof
OneWitnessEach ==
    /\ Len(last.answers) = Len(last.arg.payment.spent_ids)
    /\ \A i \in DOMAIN last.answers :
          /\ last.answers[i].id = last.arg.payment.spent_ids[i]
          /\ last.answers[i].ok
          /\ Len(last.answers[i].spends) = 1

\* ... and the proof of the chunk is accepted with their common transaction
PaymentAccepted ==
    /\ last.arg.payment.spent_ids # <<>>
    /\ OneWitnessEach
    /\ \A i \in DOMAIN last.answers :
          last.answers[i].spends[1].tx = last.answers[1].spends[1].tx
    /\ verify_fee_output_and_proof(last.arg.name, Tx(last.answers[1].spends[1].tx),
                                   last.arg.payment.audit_trail,
                                   last.arg.payment.path).ok

\* C27: a chunk with a payment proof is written only if the proof names a
\* spent id, the peers hold exactly one witness for every spent id, all with
\* the same transaction, and verify_fee_output_and_proof accepts it; no
\* witness or a failed query gives SpendNotFound for the id, another
\* transaction PaymentProofTxMismatch, no spent id PaymentProofWithoutInputs,
\* and then the chunk is not stored.
C27_PaidChunkStored ==
    PaidChunk
    => LET ans == last.answers
           name == last.arg.name
       IN  /\ (last.step = "put" \/ ~last.fin) <=> PaymentAccepted
           /\ (last.step = "validate" /\ ~last.fin)
              => \A tk \in InFlight : tk.rec = ChunkRecord(last.arg)
           /\ (last.step = "validate" /\ last.fin)
              => /\ InFlight = {}
                 /\ ~last.res.ok
                 /\ store[name] = NoRecord
           /\ last.arg.payment.spent_ids = <<>>
              => last.res = Reason("PaymentProofWithoutInputs", name)
           /\ (ans # <<>> /\ (~Last(ans).ok \/ Last(ans).spends = <<>>))
              => last.res = Reason("SpendNotFound", Last(ans).id)
           /\ ( /\ Len(ans) > 1 /\ Last(ans).ok /\ Len(Last(ans).spends) = 1
                /\ Last(ans).spends[1].tx # ans[1].spends[1].tx )
              => last.res = Reason("PaymentProofTxMismatch", name)

C27_Witness ==
    /\ PaidChunk
    /\ last.step = "put"
    /\ last.arg.payment = ProofTwoIds
    /\ last.res = Ok("StoredSuccessfully")
    /\ store[2] = ChunkRecord(last.arg)

\* C28: the spent ids are asked for in order, and the first one for which
\* the peers return two witnesses ends the validation of the chunk with
\* DoubleSpendAttempt(w1, w2), the witnesses in the order of the aggregate;
\* the chunk is not stored and the spent ids after it are not asked for.
C28_PaymentDoubleSpend ==
    PaidChunk
    => LET ans == last.answers
           ids == last.arg.payment.spent_ids
           double(i) == ans[i].ok /\ Len(ans[i].spends) > 1
       IN  /\ \A i \in DOMAIN ans : ans[i].id = ids[i]
           /\ (\E i \in DOMAIN ans : double(i))
              => /\ double(Len(ans))
                 /\ \A i \in 1..(Len(ans) - 1) : ans[i].ok /\ Len(ans[i].spends) = 1
                 /\ last.res = DoubleSpendAttempt(Last(ans).spends[1], Last(ans).spends[2])
                 /\ last.step = "validate" /\ last.fin
                 /\ InFlight = {}
                 /\ store[last.arg.name] = NoRecord
                 /\ last.trace = <<"present">> \o [i \in DOMAIN ans |-> "peers"]
           /\ last.res.v = "DoubleSpendAttempt" => double(Len(ans))

C28_Witness ==
    /\ PaidChunk
    /\ last.arg.payment = ProofTwoIds
    /\ last.res = DoubleSpendAttempt(SpendB, SpendA)
    /\ Len(last.answers) = 1

\* the call logged last validates a chunk without a payment proof whose name
\* is not held locally
UnpaidChunk ==
    /\ last.op = "Chunk"
    /\ last.step \in {"validate", "put"}
    /\ ~(last.src = "put" /\ last.res = Err("RecordKeyMismatch"))
    /\ ~last.arg.payment.some
    /\ last.step = "validate" => store[last.arg.name] = NoRecord

TriggersOf(h) ==
    /\ Len(h.calls) + Len(h.todo) = Len(h.arg)
    /\ \A i \in 1 .. Len(h.calls) :
          /\ h.calls[i].peer = h.arg[i]
          /\ h.calls[i].lost = (h.event = "PeerRemoved")

\* C30: every churn event triggers the replication: a handler of PeerAdded(p)
\* that ended has called try_trigger_replication(p, false) whatever became
\* of the lookup of the join, one of PeerRemoved(p) has called it with (p,
\* true), and one of LostRecordDetected(ps) has called it with (p, false)
\* once for each p of ps, in order, whether or not an earlier call failed.
C30_ChurnTriggersReplication ==
    /\ \A h \in BagToSet(joiners) : TriggersOf(h)
    /\ TriggersOf(join.ended)
    /\ join.ended.event # "none" => Len(join.ended.calls) = Len(join.ended.arg)
    /\ join.ended.event \in {"PeerAdded", "PeerRemoved"} => Len(join.ended.calls) = 1

\* a LostRecordDetected handler for two peers ended, its first trigger failed
C30_Witness ==
    /\ join.ended.event = "LostRecordDetected"
    /\ Len(join.ended.arg) = 2
    /\ Len(join.ended.calls) = 2
    /\ ~join.ended.calls[1].ok

\* the inactivity actions have started and have not both returned
InInactivity(l) == l.act.closest # "none"

\* C31: the handling of a network event never delays the dispatch of the
\* next one: an event that recv() returns goes to a task spawned for it and
\* the loop is back in select! at once, and whenever an event waits in the
\* channel and the loop is not in its inactivity actions the next event can
\* be received, whatever handlers are still running.
C31_DispatchNotDelayed ==
    /\ []((loop.chan # <<>> /\ ~InInactivity(loop)) => ENABLED RecvEvent)
    /\ [][ Len(loop'.chan) < Len(loop.chan)
              => /\ Head(loop.chan) \notin loop.handlers
                 /\ loop'.handlers = loop.handlers \cup {Head(loop.chan)}
                 /\ loop'.chan = Tail(loop.chan)
                 /\ loop'.pc = "select" ]_vars

\* the second event was dispatched while the handler of the first, which
\* was dispatched before, is still running
C31_Witness ==
    /\ Len(loop.dispatched) = 2
    /\ loop.dispatched[1] \in loop.handlers
    /\ loop.dispatched[2] \in loop.handlers

\* C32: when the NetworkEvent channel is closed the loop broadcasts
\* ChannelClosed exactly once and ends: it ends only from recv() on the closed
\* and empty channel, the broadcast is made by the step that ends it and by no
\* other, and afterwards nothing of the loop changes (no handler is spawned,
\* no inactivity action runs) but that the handlers spawned before may end.
C32_ChannelClosedOnce ==
    /\ [](IF loop.pc = "stopped" THEN loop.bcast = <<"ChannelClosed">>
                                 ELSE loop.bcast = <<>>)
    /\ []((loop.pc = "stopped" /\ loop.handlers # {}) => ENABLED HandlerEnds)
    /\ [][ /\ (loop'.pc = "stopped" /\ loop.pc # "stopped")
              => /\ loop.pc = "select"
                 /\ loop.closed
                 /\ loop.chan = <<>>
                 /\ loop'.handlers = loop.handlers
           /\ loop.pc = "stopped"
              => /\ loop' = [loop EXCEPT !.handlers = loop'.handlers]
                 /\ loop'.handlers \subseteq loop.handlers ]_vars

\* the loop has ended after the broadcast, a handler spawned before runs on
C32_Witness ==
    /\ loop.pc = "stopped"
    /\ loop.bcast = <<"ChannelClosed">>
    /\ loop.handlers # {}
    /\ loop.act = NoActivity

\* the events sent so far, those dispatched first and then those waiting
Arrived == loop.dispatched \o loop.chan

\* C38: the inactivity actions run in the event loop itself: from the expiry
\* of the timeout until the closest-peers query and the send of
\* RequestReplication have both returned the loop takes no event from the
\* channel and spawns no handler, the events that arrive meanwhile wait in
\* the channel, and events are dispatched in the order of their arrival.
C38_InactivityInline ==
    /\ [](InInactivity(loop) <=> loop.pc \in {"closest", "replicate"})
    /\ [](\A i \in 1 .. Len(Arrived) : Arrived[i].id = i)
    /\ [][ InInactivity(loop)
              => /\ loop'.dispatched = loop.dispatched
                 /\ loop'.handlers \subseteq loop.handlers
                 /\ Len(loop'.chan) >= Len(loop.chan)
                 /\ SubSeq(loop'.chan, 1, Len(loop.chan)) = loop.chan ]_vars

\* two events arrived during the inactivity actions and were dispatched
\* after them, the first before the second
C38_Witness ==
    /\ Len(loop.dispatched) = 2
    /\ loop.dispatched[1] = NetworkEvent(1, "closest")
    /\ loop.dispatched[2] = NetworkEvent(2, "replicate")
    /\ loop.pc = "select"

\* the last step ended the handling of a Cmd::SpendDbc
SpendDbcEnded == last.src = "cmd" /\ last.op = "DbcSpend" /\ last.fin

\* C33: for a SpendDbc command SpendStored(dbc_id) is broadcast exactly when
\* validate_and_store_spends returns Ok, DataAlreadyPresent (nothing written)
\* included, and is not broadcast when it returns DoubleSpendAttempt although
\* the record of the two spends was written; the response is Spend with the
\* result of the validation as it is.
C33_SpendStoredOnOk ==
    /\ SpendDbcEnded
       => /\ last.bcast = IF last.res.ok THEN SpendStored(last.arg[1].id) ELSE NoEvent
          /\ last.resp = CmdResponseSpend(last.res)
          /\ last.res = Ok("DataAlreadyPresent")
             => /\ last.step = "validate"
                /\ last.bcast = SpendStored(last.arg[1].id)
          /\ last.res.v = "DoubleSpendAttempt"
             => /\ last.step = "put"
                /\ store[SpendRecordKey(last.arg[1].id)] = SpendRecord(last.res.w)
                /\ last.bcast = NoEvent
    /\ (last.src = "cmd" /\ ~last.fin) => (last.bcast = NoEvent /\ last.resp = NoResponse)
    /\ last.src # "cmd" => (last.bcast = NoEvent /\ last.resp = NoResponse)

\* a SpendDbc command ended in DoubleSpendAttempt after the record of the
\* two spends was written
C33_Witness ==
    /\ SpendDbcEnded
    /\ last.step = "put"
    /\ last.res.v = "DoubleSpendAttempt"
    /\ Len(store[SpendRecordKey(last.arg[1].id)].spends) = 2
    /\ last.bcast = NoEvent

\* a SpendDbc command found its spend stored: nothing written, event broadcast
C33_AlreadyPresent ==
    /\ SpendDbcEnded
    /\ last.res = Ok("DataAlreadyPresent")
    /\ last.bcast = SpendStored(last.arg[1].id)

\* the step was the first part of a call of validate_and_store_spends for
\* spends of one dbc_id whose local record holds two witnesses, all the
\* spends of the call are in that record, and no access to the store failed
KnownDoubleSpend ==
    /\ Called(last, "DbcSpend")
    /\ last.arg # <<>>
    /\ CommonDbcId(last.arg) # 0
    /\ NoFailure(last.trace)
    /\ LET local == store[SpendRecordKey(CommonDbcId(last.arg))]
       IN  /\ local.kind = "DbcSpend"
           /\ Len(local.spends) = 2
           /\ local.spends[1].tx # local.spends[2].tx
           /\ Range(last.arg) \subseteq Range(local.spends)

\* DoubleSpendAttempt is the result of validate_and_store_spends only in the
\* second part of a call, after put_local_record stored the two witnesses
DoubleSpendOnlyWritten ==
    (last.op = "DbcSpend" /\ last.res.v = "DoubleSpendAttempt")
    => /\ last.step = "put"
       /\ last.trace[Len(last.trace)] = "put"
       /\ \E k \in Keys : store[k] = SpendRecord(last.res.w)

\* C34: when the local record of a dbc_id holds two conflicting witnesses, a
\* PUT or SpendDbc whose spends are all in that record returns
\* DataAlreadyPresent, not DoubleSpendAttempt, and writes nothing;
\* DoubleSpendAttempt is reported only by a call that writes the record.
C34_KnownDoubleSpendPresent ==
    /\ KnownDoubleSpend => (last.fin /\ last.res = Ok("DataAlreadyPresent"))
    /\ DoubleSpendOnlyWritten

\* C34 (amended): the same for calls with at most MAX_SIGNED_SPENDS_LENGTH
\* spends; a longer list, of repeated witnesses, is rejected for its length.
C34_ShortKnownDoubleSpendPresent ==
    /\ (KnownDoubleSpend /\ Len(last.arg) <= MAX_SIGNED_SPENDS_LENGTH)
       => (last.fin /\ last.res = Ok("DataAlreadyPresent"))
    /\ DoubleSpendOnlyWritten

\* a SpendDbc for one of the two witnesses held returns DataAlreadyPresent
C34_Witness ==
    /\ KnownDoubleSpend
    /\ last.src = "cmd"
    /\ last.res = Ok("DataAlreadyPresent")
    /\ Len(store[SpendRecordKey(last.arg[1].id)].spends) = 2

\* the record under the key k holds two signed spends in the store st
TwoWitnesses(st, k) == st[k].kind = "DbcSpend" /\ Len(st[k].spends) = 2

\* C35: the number of witnesses stored for a dbc_id never decreases: once the
\* store holds a record of two signed spends for a dbc_id, every step of a
\* PUT, a replication response or a SpendDbc command handled in sequence
\* leaves a record of two signed spends under its key.
C35_WitnessesNeverDecrease ==
    [][ \A k \in Keys : TwoWitnesses(store, k) => TwoWitnesses(store', k) ]_vars

\* a record of two witnesses was written again for a call with a spend that
\* is not one of the two kept
C35_Witness ==
    /\ last.op = "DbcSpend"
    /\ last.step = "put"
    /\ last.trace[Len(last.trace)] = "put"
    /\ "local" \in Range(last.trace)
    /\ TwoWitnesses(store, 2)
    /\ Len(last.arg) = 1
    /\ last.arg[1].id = 1
    /\ last.arg[1] \notin Range(store[2].spends)

\* the key that the argument of a validator derives
ArgKey(op, arg) ==
    IF op = "DbcSpend" THEN SpendRecordKey(CommonDbcId(arg)) ELSE arg.name

\* the results with which a call may have written the store
MayHaveWritten(l) ==
    \/ l.res = Ok("StoredSuccessfully")
    \/ l.op = "DbcSpend" /\ l.res.v = "DoubleSpendAttempt"

\* C36: every call of validate_and_store_chunk, validate_and_store_register
\* or validate_and_store_spends writes the local store at most once and only
\* under the key derived from its argument; a call that returns
\* DataAlreadyPresent, or an error other than the DoubleSpendAttempt of
\* validate_and_store_spends, leaves the store as it was before the call.
C36_OneWriteUnderOwnKey ==
    [][ /\ last'.step = "validate" => store' = store
        /\ last'.step = "put"
           => /\ last.step = "validate" /\ ~last.fin
              /\ last'.fin
              /\ last'.op = last.op /\ last'.arg = last.arg
              /\ \A k \in Keys \ {ArgKey(last'.op, last'.arg)} : store'[k] = store[k]
              /\ ~MayHaveWritten(last') => store' = store
        /\ (last'.fin /\ last' # last /\ ~MayHaveWritten(last')) => store' = store
        /\ store' # store => last'.step = "put" ]_vars

\* a call for two spends of a dbc wrote their record and nothing else, beside
\* a record of the other dbc
C36_Witness ==
    /\ last.step = "put"
    /\ last.op = "DbcSpend"
    /\ last.res.v = "DoubleSpendAttempt"
    /\ store[ArgKey(last.op, last.arg)] = SpendRecord(last.res.w)
    /\ \E k \in Keys \ {ArgKey(last.op, last.arg)} : store[k] # NoRecord

\* the PeerAdded handlers whose lookup of the join has not returned yet
LookupsRunning ==
    BagCardinality([h \in { x \in BagToSet(joiners) : x.pc = "lookup" } |-> joiners[h]])

\* C37: a PeerAdded handler that starts the closest-peers lookup broadcasts
\* ConnectedToNetwork when the lookup returns, failed or not: the broadcasts
\* are as many as the lookups that returned, which are the lookups started
\* less those still running, so a lookup that failed and one started by a
\* later PeerAdded give two broadcasts.
C37_ConnectedPerLookup ==
    /\ join.connected = join.succeeded + join.failed
    /\ join.lookups = join.connected + LookupsRunning

\* a lookup failed, a later PeerAdded started another: two ConnectedToNetwork
C37_Witness ==
    /\ join.failed >= 1
    /\ join.lookups = 2
    /\ join.connected = 2
    /\ LookupsRunning = 0

====
